---- MODULE Spec2Model ----
(***************************************************************************)
(* Model of cache_flat_mutation_reader (src/cache_flat_mutation_reader.hh): *)
(* the per-partition reader that merges the clustered rows cached in a      *)
(* partition snapshot with the underlying reader, emits the fragment stream *)
(* and populates the cache.                                                 *)
(*                                                                          *)
(* The row-entry store is the single-version case of a snapshot: the        *)
(* snapshot's latest version is also its oldest one whenever it is at the   *)
(* latest version.  Positions are integers: 0 is before_all_clustered_rows, *)
(* key k has before(k) = 3k-2, at(k) = 3k-1, after(k) = 3k, and MaxPos is   *)
(* after_all_clustered_rows.  One reader step is the code that runs between *)
(* two suspension points of fill_buffer().                                  *)
(***************************************************************************)
EXTENDS Integers, Sequences, FiniteSets, TLC

\* ------------------------------------------------------------------ bounds
NKeys == 2
MaxTomb == 2
MaxReads == 2
MaxReclaims == 1
MaxSteps == 40
MaxBadAllocs == 1
MaxFastForwards == 1

\* ------------------------------------------------------- position algebra
Keys == 1..NKeys
MaxPos == 3 * NKeys + 1
Positions == 0..MaxPos
Tombs == 0..MaxTomb
Nil == 0 - 1

before_key_of(k) == 3 * k - 2
at_key(k) == 3 * k - 1
after_key(k) == 3 * k

has_key(p) == p > 0 /\ p < MaxPos
key_of(p) == (p + 2) \div 3
is_clustering_row(p) == has_key(p) /\ p % 3 = 2
is_before_all_clustered_rows(p) == p = 0

\* position_in_partition::before_key(pos): a row position becomes the
\* position before its key, any other position is returned as it is.
before_key(p) == IF is_clustering_row(p) THEN p - 1 ELSE p

NonRow == {p \in Positions : ~is_clustering_row(p)}

\* position_in_partition_view::reversed(): same key, opposite bound weight.
reversed(p) == MaxPos - p

\* The same (key, weight) pair read under the other schema's weight: used
\* where the code compares a table-domain position with a query-domain one.
Mirror(p) == IF has_key(p) THEN 2 * at_key(key_of(p)) - p ELSE MaxPos - p

\* True iff no clustering row can have a position >= a and < b (a <= b);
\* decided on the keys of the two positions, as keys are dense.
no_clustering_row_between_weak(a, b) ==
    IF has_key(a) /\ has_key(b)
    THEN key_of(a) = key_of(b) /\ (a % 3 = 0 \/ b % 3 # 0)
    ELSE a = b

\* True iff no clustering row can have a position > a and < b (a <= b).
no_clustering_row_between(a, b) ==
    IF has_key(a) /\ has_key(b)
    THEN key_of(a) = key_of(b) /\ ~(a % 3 = 1 /\ b % 3 = 0)
    ELSE a = b

NextNonRow(p) == IF is_clustering_row(p + 1) THEN p + 2 ELSE p + 1

\* ---------------------------------------------------------------- fragments
partition_start(t) == [kind |-> "partition_start", pos |-> Nil, tomb |-> t, empty |-> FALSE]
static_row == [kind |-> "static_row", pos |-> Nil, tomb |-> 0, empty |-> FALSE]
clustering_row(p, e) == [kind |-> "clustering_row", pos |-> p, tomb |-> 0, empty |-> e]
range_tombstone_change(p, t) == [kind |-> "range_tombstone_change", pos |-> p, tomb |-> t, empty |-> FALSE]
partition_end == [kind |-> "partition_end", pos |-> Nil, tomb |-> 0, empty |-> FALSE]

\* --------------------------------------------------------------- variables
VARIABLES
    src,        \* the underlying source's partition (table domain), fixed
    rows,       \* clustered row entries of the snapshot's version (table domain)
    snp,        \* the snapshot's static row, its continuity flag, partition tombstone
    rd,         \* the fields of the cache_flat_mutation_reader
    under,      \* fragments the underlying reader still holds for its slice
    emitted,    \* every fragment pushed by the current reader, in order
    stats,      \* the cache's counters
    hist,       \* the reads and reclaims so far, and what the previous read emitted
    life,       \* what the reader owns, what its caller has taken and called
    peer,       \* a second reader of the same snapshot: its fields, slice and stream
    asked       \* the last position range passed to the underlying reader in this read

vars == <<src, rows, snp, rd, under, emitted, stats, hist, life, peer, asked>>

\* ------------------------------------------------------ underlying source
\* Table segments start at the non-row positions below after_all_clustered_rows.
SegStarts == NonRow \ {MaxPos}

to_table_domain(rev, q) == IF rev THEN reversed(q) ELSE q
to_query_domain(rev, t) == IF rev THEN reversed(t) ELSE t

\* The source's range tombstone over the query-domain segment starting at q.
SourceTombAt(s, rev, q) ==
    IF rev THEN s.tomb[reversed(NextNonRow(q))] ELSE s.tomb[q]

SourceHasRow(s, rev, q) == key_of(to_table_domain(rev, q)) \in s.rows

\* The fragments of the source in the query-domain slice [p, ub), when the
\* tombstone cur is open at p: the stream the underlying reader produces
\* after fast_forward_to(position_range{p, ub}).
RECURSIVE SliceFrom(_, _, _, _, _)
SliceFrom(s, rev, p, ub, cur) ==
    IF p >= ub
    THEN IF cur # 0 THEN <<range_tombstone_change(ub, 0)>> ELSE <<>>
    ELSE IF is_clustering_row(p)
    THEN (IF SourceHasRow(s, rev, p) THEN <<clustering_row(p, FALSE)>> ELSE <<>>)
         \o SliceFrom(s, rev, p + 1, ub, cur)
    ELSE LET t == SourceTombAt(s, rev, p)
         IN  (IF t # cur THEN <<range_tombstone_change(p, t)>> ELSE <<>>)
             \o SliceFrom(s, rev, p + 1, ub, t)

underlying_fast_forward_to(s, rev, lb, ub) == SliceFrom(s, rev, lb, ub, 0)

\* ---------------------------------------------------------- row-entry store
NoEntry == [present |-> FALSE, dummy |-> FALSE, continuous |-> FALSE,
            range_tombstone |-> 0, empty |-> FALSE]
rows_entry(d, c, t, e) == [present |-> TRUE, dummy |-> d, continuous |-> c,
                           range_tombstone |-> t, empty |-> e]

EntryPositions(rws) == {p \in Positions : rws[p].present}

\* A partition entry made incomplete: only the last dummy, nothing continuous.
make_incomplete ==
    [p \in Positions |-> IF p = MaxPos THEN rows_entry(TRUE, FALSE, 0, FALSE) ELSE NoEntry]

\* rows.insert(e): an entry already at the position is kept.
insert_entry(rws, t, e) == IF rws[t].present THEN rws ELSE [rws EXCEPT ![t] = e]

\* The first entry after table position t (the last dummy always exists).
NextEntry(rws, t) ==
    CHOOSE x \in EntryPositions(rws) :
        x > t /\ \A y \in EntryPositions(rws) : y > t => x <= y

\* rows_entry::on_evicted: the last dummy stays and only loses continuity;
\* another entry is erased, and its successor stays continuous only when a
\* continuous dummy with the successor's range tombstone was erased.
on_evicted(rws, t) ==
    IF t = MaxPos
    THEN [rws EXCEPT ![t].continuous = FALSE]
    ELSE LET e == rws[t]
             n == NextEntry(rws, t)
             still_continuous == e.continuous /\ e.dummy
             erased == [rws EXCEPT ![t] = NoEntry]
         IN  IF ~still_continuous \/ e.range_tombstone # rws[n].range_tombstone
             THEN [erased EXCEPT ![n].continuous = FALSE]
             ELSE erased

\* ------------------------------------------------------------------ cursor
\* Query-domain positions a cursor can stand on: the entries, and in reverse
\* mode the position past the first table entry, where it points at no row.
CursorPositions(rws, rev) ==
    IF rev THEN {reversed(t) : t \in EntryPositions(rws)} \cup {MaxPos}
    ELSE EntryPositions(rws)

\* The cursor standing on query-domain position q, with the attributes it
\* caches: continuity and range tombstone of the interval before q in query
\* order, and the range tombstone of the row at q.
cursor_at(rws, rev, q) ==
    LET t == to_table_domain(rev, q)
        at_a_row == rws[t].present
        \* the entry whose continuity flag covers the interval before q
        c == IF ~rev THEN t ELSE IF t = MaxPos THEN Nil ELSE NextEntry(rws, t)
        cont == IF c = Nil THEN FALSE ELSE rws[c].continuous
    IN  [position |-> q,
         valid |-> TRUE,
         at_a_row |-> at_a_row,
         dummy |-> IF at_a_row THEN rws[t].dummy ELSE TRUE,
         continuous |-> cont,
         range_tombstone |-> IF cont THEN rws[c].range_tombstone ELSE 0,
         range_tombstone_for_row |-> IF at_a_row THEN rws[t].range_tombstone ELSE 0]

\* partition_snapshot_row_cursor::advance_to(lower_bound): the cursor on the
\* first position >= lower_bound.
cursor_advance_to(rws, rev, lb) ==
    LET q == CHOOSE x \in CursorPositions(rws, rev) :
                 x >= lb /\ \A y \in CursorPositions(rws, rev) : y >= lb => x <= y
    IN  cursor_at(rws, rev, q)

\* What advance_to returns: no row can lie between lower_bound and the cursor.
cursor_adjacent(lb, cur) == no_clustering_row_between_weak(lb, cur.position)

\* partition_snapshot_row_cursor::next()
cursor_next(rws, rev, cur) == cursor_advance_to(rws, rev, cur.position + 1)

\* ------------------------------------------------------------------ reader
\* The operators below take and return a record w of everything a reader
\* step can change: rd (the reader's fields), rows, snp, out (the fragments
\* pushed), under (the underlying reader's pending fragments) and stats,
\* with the cache section the step runs in (section) and the changes it has
\* made to the row-entry store (log), of which the dummies dropped by
\* maybe_drop_last_entry are kept with the store before and after (drops).
\* fail tells that the next allocation of the step fails, thrown that a
\* bad_alloc is unwinding the step.

\* lsa_manager::run_in_read_section / run_in_update_section: the code runs
\* inside that section of the cache's region.
run_in_read_section(w) == [w EXCEPT !.section = "read"]
run_in_update_section(w) == [w EXCEPT !.section = "update"]

\* allocator().invalidate_references(): the cursor and the weak reference
\* must be refreshed before their next use.
invalidate_references(w) ==
    [w EXCEPT !.rd.next_row.valid = FALSE, !.rd.last_row.valid = FALSE]

\* current_allocator().construct<rows_entry>(...) when the arena is
\* exhausted: std::bad_alloc is thrown and unwinds the caller.
bad_alloc(w) == [w EXCEPT !.fail = FALSE, !.thrown = TRUE]

\* The end of a read or update section that a bad_alloc leaves: the failure
\* is swallowed and the references into the arena are invalidated.
swallow_bad_alloc(w) ==
    IF w.thrown THEN invalidate_references([w EXCEPT !.thrown = FALSE]) ELSE w

\* catch (const std::bad_alloc&) around move_to_next_range() in
\* read_from_underlying().
catch_bad_alloc(w) ==
    IF w.thrown THEN invalidate_references([w EXCEPT !.thrown = FALSE]) ELSE w

\* A change of the row-entry store made under with_allocator(...): op tells
\* what is changed, section the section it is made in.
store_mutation(w, op) ==
    [w EXCEPT !.log = @ \cup {[op |-> op, section |-> w.section, allocator |-> TRUE]}]

null_row == [pos |-> Nil, valid |-> TRUE]
\* partition_snapshot_row_weakref(snp, it, true): a weak reference to the
\* entry at table position t, valid until references are invalidated.
partition_snapshot_row_weakref(t) == [pos |-> t, valid |-> TRUE]

push_mutation_fragment(w, mf) == [w EXCEPT !.out = Append(@, mf)]

on_mispopulate(w) == [w EXCEPT !.stats.mispopulate = @ + 1]
on_row_hit(w) == [w EXCEPT !.stats.row_hit = @ + 1]
on_row_miss(w) == [w EXCEPT !.stats.row_miss = @ + 1]

can_populate(w) == w.rd.at_latest_version /\ w.rd.phase_ok

\* A faulty finish_reader: the state ends without the partition end.
finish_reader_silent(w) ==
    [w EXCEPT !.rd.end_of_stream = TRUE, !.rd.state = "end_of_stream"]

\* A faulty finish_reader: the state ends but _end_of_stream is not set.
finish_reader_unflagged(w) ==
    [push_mutation_fragment(w, partition_end) EXCEPT !.rd.state = "end_of_stream"]

finish_reader(w) ==
    [push_mutation_fragment(w, partition_end) EXCEPT
        !.rd.end_of_stream = TRUE, !.rd.state = "end_of_stream"]

move_to_end(w) == finish_reader(w)

after_current_range(w, p) == p >= w.rd.upper_bound

start_reading_from_underlying(w) == [w EXCEPT !.rd.state = "move_to_underlying"]

\* A table-domain position as the query schema's comparator orders it.
QueryOrderOf(rev, t) ==
    IF t = Nil THEN Nil ELSE IF rev THEN reversed(Mirror(t)) ELSE t

\* eq(_last_row.position(), _next_row.position()): a table-domain position
\* compared with a query-domain one, key and bound weight as they are stored.
eq_last_next(rev, t, q) == t # Nil /\ QueryOrderOf(rev, t) = q

\* partition_snapshot_row_weakref::refresh: finds the entry at the stored
\* position again; fails when there is none (or the reference is null).
weakref_refresh(w) ==
    LET lr == w.rd.last_row
        found == lr.pos # Nil /\ w.rows[lr.pos].present
    IN  [ok |-> found,
         w |-> [w EXCEPT !.rd.last_row = IF found THEN [lr EXCEPT !.valid = TRUE]
                                         ELSE null_row]]

\* A faulty ensure_population_lower_bound(): _last_row is trusted without a
\* refresh.
ensure_population_lower_bound_unrefreshed(w) == [ok |-> TRUE, w |-> w]

ensure_population_lower_bound(w) ==
    IF w.rd.population_range_starts_before_all_rows
    THEN [ok |-> TRUE, w |-> w]
    ELSE weakref_refresh(w)

maybe_drop_last_entry(w, rt) ==
    LET lr == w.rd.last_row
        e == IF lr.pos = Nil THEN NoEntry ELSE w.rows[lr.pos]
    IN  IF /\ lr.pos # Nil
           /\ ~w.rd.is_reversed
           /\ e.dummy
           /\ e.continuous
           /\ e.range_tombstone = rt
           /\ w.rd.at_latest_version
           /\ w.rd.at_oldest_version
        THEN LET w1 == [store_mutation(w, "evict_dummy") EXCEPT
                               !.rows = on_evicted(w.rows, lr.pos),
                               !.rd.last_row = null_row,
                               !.rd.next_row.valid = TRUE,
                               !.stats.row_evictions = @ + 1]
             IN  [w1 EXCEPT !.drops = @ \cup {[pos |-> lr.pos, before |-> w.rows,
                                               after |-> w1.rows, rd |-> w1.rd]}]
        ELSE w

\* A faulty move_to_range: the lower-bound dummy is inserted without asking
\* can_populate().
move_to_range_unguarded(w, next_it) ==
    LET rng == w.rd.ck_ranges[next_it]
        rev == w.rd.is_reversed
        nr == cursor_advance_to(w.rows, rev, rng.lb)
        adjacent == cursor_adjacent(rng.lb, nr)
        w1 == [w EXCEPT !.rd.last_row = null_row,
                        !.rd.lower_bound = rng.lb,
                        !.rd.upper_bound = rng.ub,
                        !.rd.ck_ranges_curr = next_it,
                        !.rd.next_row = nr,
                        !.rd.next_row_in_range = ~(nr.position >= rng.ub)]
        t == to_table_domain(rev, rng.lb)
    IN  IF ~adjacent /\ ~nr.continuous
        THEN start_reading_from_underlying(
                IF rng.lb # 0 /\ ~rng.single
                THEN [w1 EXCEPT
                        !.rows = insert_entry(@, t, rows_entry(TRUE, FALSE, 0, FALSE)),
                        !.rd.last_row = partition_snapshot_row_weakref(t)]
                ELSE w1)
        ELSE w1

move_to_range(w, next_it) ==
    LET rng == w.rd.ck_ranges[next_it]
        rev == w.rd.is_reversed
        nr == cursor_advance_to(w.rows, rev, rng.lb)
        adjacent == cursor_adjacent(rng.lb, nr)
        w1 == [w EXCEPT !.rd.last_row = null_row,
                        !.rd.lower_bound = rng.lb,
                        !.rd.upper_bound = rng.ub,
                        !.rd.ck_ranges_curr = next_it,
                        !.rd.next_row = nr,
                        !.rd.next_row_in_range = ~(nr.position >= rng.ub)]
        t == to_table_domain(rev, rng.lb)
    IN  IF ~adjacent /\ ~nr.continuous
        THEN IF rng.lb # 0 /\ ~rng.single /\ can_populate(w1) /\ w1.fail
             THEN bad_alloc(w1)
             ELSE start_reading_from_underlying(
                IF rng.lb # 0 /\ ~rng.single
                THEN IF can_populate(w1)
                     THEN [store_mutation(w1, "insert_dummy") EXCEPT
                             !.rows = insert_entry(@, t, rows_entry(TRUE, FALSE, 0, FALSE)),
                             !.rd.last_row = partition_snapshot_row_weakref(t)]
                     ELSE on_mispopulate(w1)
                ELSE w1)
        ELSE w1

\* A faulty move_to_next_range: the open tombstone is not closed.
move_to_next_range_unclosed(w) ==
    LET next_it == w.rd.ck_ranges_curr + 1
    IN  IF next_it > Len(w.rd.ck_ranges)
        THEN [move_to_end(w) EXCEPT !.rd.ck_ranges_curr = next_it]
        ELSE move_to_range(w, next_it)

\* A faulty move_to_next_range: the closing change is pushed but
\* _current_tombstone is kept.
move_to_next_range_stale(w) ==
    LET w1 == IF w.rd.current_tombstone # 0
              THEN push_mutation_fragment(w, range_tombstone_change(w.rd.upper_bound, 0))
              ELSE w
        next_it == w.rd.ck_ranges_curr + 1
    IN  IF next_it > Len(w.rd.ck_ranges)
        THEN [move_to_end(w1) EXCEPT !.rd.ck_ranges_curr = next_it]
        ELSE move_to_range(w1, next_it)

move_to_next_range(w) ==
    LET w1 == IF w.rd.current_tombstone # 0
              THEN [push_mutation_fragment(w, range_tombstone_change(w.rd.upper_bound, 0))
                       EXCEPT !.rd.current_tombstone = 0]
              ELSE w
        next_it == w.rd.ck_ranges_curr + 1
    IN  IF next_it > Len(w.rd.ck_ranges)
        THEN [move_to_end(w1) EXCEPT !.rd.ck_ranges_curr = next_it]
        ELSE move_to_range(w1, next_it)

\* A faulty move_to_next_entry(): the next entry's continuity is not
\* consulted and the interval before it is read from the underlying reader.
move_to_next_entry_uncached(w) ==
    IF no_clustering_row_between(w.rd.next_row.position, w.rd.upper_bound)
    THEN move_to_next_range(w)
    ELSE LET rev == w.rd.is_reversed
             new_last_row == partition_snapshot_row_weakref(
                                 to_table_domain(rev, w.rd.next_row.position))
             nr == cursor_next(w.rows, rev, w.rd.next_row)
             w1 == [w EXCEPT !.rd.next_row = nr,
                             !.rd.last_row = new_last_row,
                             !.rd.next_row_in_range = ~after_current_range(w, nr.position)]
         IN  start_reading_from_underlying(w1)

\* A faulty move_to_next_entry(): _next_row_in_range is not recomputed for
\* the entry the cursor moved to.
move_to_next_entry_unranged(w) ==
    IF no_clustering_row_between(w.rd.next_row.position, w.rd.upper_bound)
    THEN move_to_next_range(w)
    ELSE LET rev == w.rd.is_reversed
             new_last_row == partition_snapshot_row_weakref(
                                 to_table_domain(rev, w.rd.next_row.position))
             nr == cursor_next(w.rows, rev, w.rd.next_row)
             w1 == [w EXCEPT !.rd.next_row = nr,
                             !.rd.last_row = new_last_row]
         IN  IF ~nr.continuous
             THEN start_reading_from_underlying(w1)
             ELSE maybe_drop_last_entry(w1, nr.range_tombstone)

move_to_next_entry(w) ==
    IF no_clustering_row_between(w.rd.next_row.position, w.rd.upper_bound)
    THEN move_to_next_range(w)
    ELSE LET rev == w.rd.is_reversed
             new_last_row == partition_snapshot_row_weakref(
                                 to_table_domain(rev, w.rd.next_row.position))
             nr == cursor_next(w.rows, rev, w.rd.next_row)
             w1 == [w EXCEPT !.rd.next_row = nr,
                             !.rd.last_row = new_last_row,
                             !.rd.next_row_in_range = ~after_current_range(w, nr.position)]
         IN  IF ~nr.continuous
             THEN start_reading_from_underlying(w1)
             ELSE maybe_drop_last_entry(w1, nr.range_tombstone)

\* A faulty add_clustering_row_to_buffer: _lower_bound stays behind the row.
add_clustering_row_to_buffer_stale(w, mf) == push_mutation_fragment(w, mf)

\* A faulty add_clustering_row_to_buffer: _lower_bound is left at the row.
add_clustering_row_to_buffer_at_row(w, mf) ==
    [push_mutation_fragment(w, mf) EXCEPT !.rd.lower_bound = mf.pos]

add_clustering_row_to_buffer(w, mf) ==
    [push_mutation_fragment(w, mf) EXCEPT !.rd.lower_bound = mf.pos + 1]

add_to_buffer_rtc(w, rtc) ==
    [push_mutation_fragment(w, rtc) EXCEPT !.rd.has_rt = TRUE,
                                           !.rd.lower_bound = rtc.pos]

add_to_buffer(w, row) ==
    IF ~row.dummy
    THEN add_clustering_row_to_buffer(on_row_hit(w),
            clustering_row(row.position,
                           w.rows[to_table_domain(w.rd.is_reversed, row.position)].empty))
    ELSE IF w.rd.lower_bound < row.position
         THEN [w EXCEPT !.rd.lower_bound = row.position]
         ELSE w

\* A faulty copy_from_cache_to_buffer(): the cursor's row is added without
\* comparing range_tombstone_for_row() with _current_tombstone.
copy_from_cache_to_buffer_untombstoned(w) ==
    LET nr == w.rd.next_row
        upper_bound == IF w.rd.next_row_in_range THEN before_key(nr.position)
                       ELSE w.rd.upper_bound
        w1 == IF nr.range_tombstone # w.rd.current_tombstone
                 /\ w.rd.lower_bound # upper_bound
              THEN [push_mutation_fragment(w,
                        range_tombstone_change(w.rd.lower_bound, nr.range_tombstone))
                      EXCEPT !.rd.current_tombstone = nr.range_tombstone,
                             !.rd.lower_bound = upper_bound]
              ELSE w
    IN  IF w.rd.next_row_in_range
        THEN move_to_next_entry(add_to_buffer(w1, nr))
        ELSE move_to_next_range(w1)

copy_from_cache_to_buffer(w) ==
    LET nr == w.rd.next_row
        upper_bound == IF w.rd.next_row_in_range THEN before_key(nr.position)
                       ELSE w.rd.upper_bound
        w1 == IF nr.range_tombstone # w.rd.current_tombstone
                 /\ w.rd.lower_bound # upper_bound
              THEN [push_mutation_fragment(w,
                        range_tombstone_change(w.rd.lower_bound, nr.range_tombstone))
                      EXCEPT !.rd.current_tombstone = nr.range_tombstone,
                             !.rd.lower_bound = upper_bound]
              ELSE w
        w2 == IF nr.range_tombstone_for_row # w1.rd.current_tombstone
              THEN [push_mutation_fragment(w1,
                        range_tombstone_change(before_key(nr.position),
                                               nr.range_tombstone_for_row))
                      EXCEPT !.rd.lower_bound = before_key(nr.position),
                             !.rd.current_tombstone = nr.range_tombstone_for_row]
              ELSE w1
    IN  IF w.rd.next_row_in_range
        THEN move_to_next_entry(add_to_buffer(w2, nr))
        ELSE move_to_next_range(w1)

\* A faulty maybe_add_to_cache(const clustering_row&): the row is emitted
\* but no entry is stored for it, and _last_row stays where it was.
maybe_add_to_cache_row_unstored(w, cr) == w

\* A faulty maybe_add_to_cache(const clustering_row&): a reverse read marks
\* the entry it inserts, as a forward read does, instead of _last_row's.
maybe_add_to_cache_row_forward_only(w, cr) ==
    IF ~can_populate(w)
    THEN on_mispopulate([w EXCEPT !.rd.last_row = null_row,
                                  !.rd.population_range_starts_before_all_rows = FALSE])
    ELSE IF w.fail
    THEN swallow_bad_alloc(bad_alloc(run_in_update_section(w)))
    ELSE LET t == to_table_domain(w.rd.is_reversed, cr.pos)
             w1 == [store_mutation(run_in_update_section(w), "insert_row") EXCEPT
                       !.rows = insert_entry(@, t,
                                 rows_entry(FALSE, FALSE, w.rd.current_tombstone, FALSE))]
             r == ensure_population_lower_bound(w1)
             w2 == IF r.ok
                   THEN [store_mutation(r.w, "set_continuous") EXCEPT
                            !.rows[t].continuous = TRUE,
                            !.rows[t].range_tombstone = w.rd.current_tombstone]
                   ELSE on_mispopulate(r.w)
         IN  [w2 EXCEPT !.rd.last_row = partition_snapshot_row_weakref(t),
                        !.rd.population_range_starts_before_all_rows = FALSE]

\* maybe_add_to_cache(const clustering_row&)
maybe_add_to_cache_row(w, cr) ==
    IF ~can_populate(w)
    THEN on_mispopulate([w EXCEPT !.rd.last_row = null_row,
                                  !.rd.population_range_starts_before_all_rows = FALSE])
    ELSE IF w.fail
    THEN swallow_bad_alloc(bad_alloc(run_in_update_section(w)))
    ELSE LET rev == w.rd.is_reversed
             t == to_table_domain(rev, cr.pos)
             w1 == [store_mutation(run_in_update_section(w), "insert_row") EXCEPT
                       !.rows = insert_entry(@, t,
                                 rows_entry(FALSE, FALSE, w.rd.current_tombstone, FALSE))]
             r0 == ensure_population_lower_bound(w1)
             r == [r0 EXCEPT !.w = IF r0.ok THEN store_mutation(@, "set_continuous") ELSE @]
             w2 == IF r.ok
                   THEN IF rev
                        THEN [r.w EXCEPT
                                !.rows[r.w.rd.last_row.pos].continuous = TRUE,
                                !.rows[r.w.rd.last_row.pos].range_tombstone = w.rd.current_tombstone]
                        ELSE [r.w EXCEPT
                                !.rows[t].continuous = TRUE,
                                !.rows[t].range_tombstone = w.rd.current_tombstone]
                   ELSE on_mispopulate(r.w)
         IN  [w2 EXCEPT !.rd.last_row = partition_snapshot_row_weakref(t),
                        !.rd.population_range_starts_before_all_rows = FALSE]

\* A faulty maybe_add_to_cache(const range_tombstone_change&): a change that
\* repeats current_tombstone is emitted like any other, and nothing is
\* populated.
maybe_add_to_cache_rtc_repeated(w, rtc) ==
    IF rtc.pos = w.rd.underlying_upper_bound
    THEN [emit |-> FALSE, w |-> [w EXCEPT !.rd.lower_bound = rtc.pos]]
    ELSE [emit |-> TRUE,
          w |-> on_mispopulate([w EXCEPT
                    !.rd.current_tombstone = rtc.tomb,
                    !.rd.last_row = null_row,
                    !.rd.population_range_starts_before_all_rows = FALSE])]

\* maybe_add_to_cache(const range_tombstone_change&): emit tells whether the
\* change is to be pushed.
maybe_add_to_cache_rtc(w, rtc) ==
    IF rtc.pos = w.rd.underlying_upper_bound
    THEN [emit |-> FALSE, w |-> [w EXCEPT !.rd.lower_bound = rtc.pos]]
    ELSE
    LET prev == w.rd.current_tombstone
        w0 == [w EXCEPT !.rd.current_tombstone = rtc.tomb]
    IN  IF rtc.tomb = prev
        THEN [emit |-> FALSE, w |-> w0]
        ELSE IF ~can_populate(w0)
        THEN [emit |-> TRUE,
              w |-> on_mispopulate([w0 EXCEPT
                        !.rd.last_row = null_row,
                        !.rd.population_range_starts_before_all_rows = FALSE])]
        ELSE IF w0.fail
        THEN [emit |-> TRUE,
              w |-> swallow_bad_alloc(bad_alloc(run_in_update_section(w0)))]
        ELSE LET rev == w.rd.is_reversed
                 t == to_table_domain(rev, rtc.pos)
                 w1 == [store_mutation(run_in_update_section(w0), "insert_dummy") EXCEPT
                           !.rows = insert_entry(@, t, rows_entry(TRUE, FALSE, 0, FALSE))]
                 r == ensure_population_lower_bound(w1)
                 lr == r.w.rd.last_row.pos
                 w2 == IF r.ok
                       THEN IF QueryOrderOf(rev, lr) < QueryOrderOf(rev, t)
                            THEN IF rev
                                 THEN [store_mutation(r.w, "set_continuous") EXCEPT
                                          !.rows[lr].continuous = TRUE,
                                          !.rows[lr].range_tombstone = prev]
                                 ELSE [store_mutation(r.w, "set_continuous") EXCEPT
                                          !.rows[t].continuous = TRUE,
                                          !.rows[t].range_tombstone = prev]
                            ELSE r.w
                       ELSE on_mispopulate(r.w)
             IN  [emit |-> TRUE,
                  w |-> [w2 EXCEPT !.rd.last_row = partition_snapshot_row_weakref(t),
                                   !.rd.population_range_starts_before_all_rows = FALSE]]

offer_from_underlying(w, mf) ==
    IF mf.kind = "clustering_row"
    THEN add_clustering_row_to_buffer(maybe_add_to_cache_row(w, mf), mf)
    ELSE LET r == maybe_add_to_cache_rtc(w, mf)
         IN  IF r.emit THEN add_to_buffer_rtc(r.w, mf) ELSE r.w

maybe_update_continuity(w) ==
    LET r == IF can_populate(w) THEN ensure_population_lower_bound(w)
             ELSE [ok |-> FALSE, w |-> w]
        rev == w.rd.is_reversed
        cur == w.rd.current_tombstone
    IN  IF r.ok /\ ~eq_last_next(rev, r.w.rd.last_row.pos, w.rd.next_row.position)
        THEN LET tn == to_table_domain(rev, w.rd.next_row.position)
                 \* the entry that takes the continuity flag of the interval
                 tc == IF rev THEN r.w.rd.last_row.pos ELSE tn
                 e == r.w.rows[tc]
                 w1 == IF cur # e.range_tombstone /\ ~e.dummy /\ r.w.fail
                       THEN bad_alloc(r.w)
                       ELSE IF cur # e.range_tombstone /\ ~e.dummy
                       THEN LET rows1 == insert_entry(r.w.rows, before_key(tc),
                                                      rows_entry(TRUE, TRUE, 0, FALSE))
                            IN  [store_mutation(store_mutation(r.w, "insert_dummy"),
                                                "set_continuous") EXCEPT !.rows =
                                    [rows1 EXCEPT ![before_key(tc)].continuous = TRUE,
                                                  ![before_key(tc)].range_tombstone = cur,
                                                  ![tc].continuous = TRUE]]
                       ELSE [store_mutation(r.w, "set_continuous") EXCEPT
                                        !.rows[tc].range_tombstone = cur,
                                        !.rows[tc].continuous = TRUE]
             IN  IF w1.thrown THEN w1 ELSE maybe_drop_last_entry(w1, cur)
        ELSE on_mispopulate(r.w)

\* A faulty process_static_row(): the snapshot's static row is pushed as it
\* is, empty or not, whenever it is continuous.
process_static_row_unchecked(w, s) ==
    IF w.snp.static_row_continuous
    THEN push_mutation_fragment(on_row_hit(w), static_row)
    ELSE LET w1 == [on_row_miss(w) EXCEPT !.rd.underlying = TRUE]
             w2 == IF s.static = "row"
                   THEN push_mutation_fragment(
                            IF can_populate(w1)
                            THEN [w1 EXCEPT !.snp.static_row = TRUE,
                                            !.stats.static_row_insert = @ + 1]
                            ELSE on_mispopulate(w1),
                            static_row)
                   ELSE w1
         IN  IF can_populate(w2)
             THEN [w2 EXCEPT !.snp.static_row_continuous = TRUE]
             ELSE on_mispopulate(w2)

\* A faulty process_static_row(): the static row is marked continuous
\* without asking can_populate().
process_static_row_always_continuous(w, s) ==
    IF w.snp.static_row_continuous
    THEN LET w1 == on_row_hit(w)
         IN  IF w.snp.static_row THEN push_mutation_fragment(w1, static_row) ELSE w1
    ELSE LET w1 == [on_row_miss(w) EXCEPT !.rd.underlying = TRUE]
             w2 == IF s.static = "row"
                   THEN push_mutation_fragment(
                            IF can_populate(w1)
                            THEN [w1 EXCEPT !.snp.static_row = TRUE,
                                            !.stats.static_row_insert = @ + 1]
                            ELSE on_mispopulate(w1),
                            static_row)
                   ELSE w1
         IN  [w2 EXCEPT !.snp.static_row_continuous = TRUE]

\* process_static_row(): served from the snapshot when the static row is
\* continuous, read from the underlying reader (and populated) otherwise.
process_static_row(w, s) ==
    IF w.snp.static_row_continuous
    THEN LET w1 == on_row_hit(w)
         IN  IF w.snp.static_row THEN push_mutation_fragment(w1, static_row) ELSE w1
    ELSE LET w1 == [on_row_miss(w) EXCEPT !.rd.underlying = TRUE]
             \* maybe_add_to_cache(const static_row&), then the push
             w2 == IF s.static = "row"
                   THEN push_mutation_fragment(
                            IF can_populate(w1)
                            THEN [w1 EXCEPT !.snp.static_row = TRUE,
                                            !.stats.static_row_insert = @ + 1]
                            ELSE on_mispopulate(w1),
                            static_row)
                   ELSE w1
         IN  \* maybe_set_static_row_continuous()
             IF can_populate(w2)
             THEN [w2 EXCEPT !.snp.static_row_continuous = TRUE]
             ELSE on_mispopulate(w2)

\* fill_buffer() in state before_static_row, up to the first do_fill_buffer().
fill_buffer_first(w, s) ==
    LET w1 == IF s.static # "none" THEN process_static_row(w, s) ELSE w
    IN  IF w1.rd.ck_ranges_curr > Len(w1.rd.ck_ranges)
        THEN finish_reader(w1)
        ELSE swallow_bad_alloc(move_to_range(
                run_in_read_section([w1 EXCEPT !.rd.state = "reading_from_cache"]),
                w1.rd.ck_ranges_curr))

\* A faulty do_fill_buffer() in state move_to_underlying: partition_exists()
\* is not asked and the underlying reader is fast-forwarded in any case.
do_fill_buffer_move_to_underlying_unasked(w, s) ==
    LET rev == w.rd.is_reversed
        uub == IF w.rd.next_row_in_range THEN before_key(w.rd.next_row.position)
               ELSE w.rd.upper_bound
        w1 == [w EXCEPT !.rd.underlying = TRUE,
                        !.rd.state = "reading_from_underlying",
                        !.rd.population_range_starts_before_all_rows =
                            is_before_all_clustered_rows(w.rd.lower_bound) /\ ~rev,
                        !.rd.underlying_upper_bound = uub]
        closing == [push_mutation_fragment(w1, range_tombstone_change(w.rd.lower_bound, 0))
                       EXCEPT !.rd.current_tombstone = 0]
        slice == underlying_fast_forward_to(s, rev, w.rd.lower_bound, uub)
        mf_opens_here == /\ slice # <<>>
                         /\ Head(slice).kind = "range_tombstone_change"
                         /\ Head(slice).pos = w.rd.lower_bound
    IN  IF w.rd.current_tombstone # 0 /\ ~mf_opens_here
        THEN [closing EXCEPT !.under = slice, !.fast_forwarded = TRUE]
        ELSE [w1 EXCEPT !.under = slice, !.fast_forwarded = TRUE]

\* A faulty do_fill_buffer() in state move_to_underlying: an open tombstone
\* is closed at lower_bound without peeking at the underlying reader.
do_fill_buffer_move_to_underlying_unpeeked(w, s) ==
    LET rev == w.rd.is_reversed
        uub == IF w.rd.next_row_in_range THEN before_key(w.rd.next_row.position)
               ELSE w.rd.upper_bound
        w1 == [w EXCEPT !.rd.underlying = TRUE,
                        !.rd.state = "reading_from_underlying",
                        !.rd.population_range_starts_before_all_rows =
                            is_before_all_clustered_rows(w.rd.lower_bound) /\ ~rev,
                        !.rd.underlying_upper_bound = uub]
        closing == [push_mutation_fragment(w1, range_tombstone_change(w.rd.lower_bound, 0))
                       EXCEPT !.rd.current_tombstone = 0]
    IN  IF ~s.exists
        THEN IF w.rd.current_tombstone # 0 THEN closing ELSE w1
        ELSE LET slice == underlying_fast_forward_to(s, rev, w.rd.lower_bound, uub)
             IN  IF w.rd.current_tombstone # 0
                 THEN [closing EXCEPT !.under = slice, !.fast_forwarded = TRUE]
                 ELSE [w1 EXCEPT !.under = slice, !.fast_forwarded = TRUE]

\* do_fill_buffer() in state move_to_underlying, up to read_from_underlying().
do_fill_buffer_move_to_underlying(w, s) ==
    LET rev == w.rd.is_reversed
        uub == IF w.rd.next_row_in_range THEN before_key(w.rd.next_row.position)
               ELSE w.rd.upper_bound
        w1 == [w EXCEPT !.rd.underlying = TRUE,
                        !.rd.state = "reading_from_underlying",
                        !.rd.population_range_starts_before_all_rows =
                            is_before_all_clustered_rows(w.rd.lower_bound) /\ ~rev,
                        !.rd.underlying_upper_bound = uub]
        closing == [push_mutation_fragment(w1, range_tombstone_change(w.rd.lower_bound, 0))
                       EXCEPT !.rd.current_tombstone = 0]
    IN  IF ~s.exists
        THEN IF w.rd.current_tombstone # 0 THEN closing ELSE w1
        ELSE LET slice == underlying_fast_forward_to(s, rev, w.rd.lower_bound, uub)
                 mf_opens_here == /\ slice # <<>>
                                  /\ Head(slice).kind = "range_tombstone_change"
                                  /\ Head(slice).pos = w.rd.lower_bound
             IN  IF w.rd.current_tombstone # 0 /\ ~mf_opens_here
                 THEN [closing EXCEPT !.under = slice, !.fast_forwarded = TRUE]
                 ELSE [w1 EXCEPT !.under = slice, !.fast_forwarded = TRUE]

\* A faulty do_fill_buffer() in state reading_from_cache: after advance_to
\* the copy loop runs whether or not the cursor landed past a gap.
do_fill_buffer_reading_from_cache_blind(w_) ==
    LET w == run_in_read_section(w_)
        rev == w.rd.is_reversed
        nr == cursor_advance_to(w.rows, rev, w.rd.lower_bound)
        w1 == [w EXCEPT !.rd.next_row = nr,
                        !.rd.next_row_in_range = ~after_current_range(w, nr.position)]
    IN  IF ~w.rd.next_row.valid
        THEN swallow_bad_alloc(copy_from_cache_to_buffer(w1))
        ELSE swallow_bad_alloc(copy_from_cache_to_buffer(w))

\* A faulty do_fill_buffer() in state reading_from_cache: the cursor is used
\* as it stands, whether or not its iterators are valid.
do_fill_buffer_reading_from_cache_unchecked(w_) ==
    swallow_bad_alloc(copy_from_cache_to_buffer(run_in_read_section(w_)))

\* do_fill_buffer() in state reading_from_cache: one read section with one
\* round of the copy loop (the loop may be preempted after any round).
do_fill_buffer_reading_from_cache(w_) ==
    LET w == run_in_read_section(w_)
        rev == w.rd.is_reversed
        nr == cursor_advance_to(w.rows, rev, w.rd.lower_bound)
        adjacent == cursor_adjacent(w.rd.lower_bound, nr)
        w1 == [w EXCEPT !.rd.next_row = nr,
                        !.rd.next_row_in_range = ~after_current_range(w, nr.position)]
    IN  IF ~w.rd.next_row.valid
        THEN IF ~adjacent /\ ~nr.continuous
             THEN start_reading_from_underlying([w1 EXCEPT !.rd.last_row = null_row])
             ELSE swallow_bad_alloc(copy_from_cache_to_buffer(w1))
        ELSE swallow_bad_alloc(copy_from_cache_to_buffer(w))

\* read_from_underlying(): one fragment consumed from the underlying reader.
read_from_underlying_fragment(w) ==
    offer_from_underlying(on_row_miss([w EXCEPT !.under = Tail(@)]), Head(w.under))

\* A faulty end of read_from_underlying(): _lower_bound is not moved to the
\* end of the slice, and the reader goes back to the underlying reader.
read_from_underlying_end_rewound(w) ==
    [w EXCEPT !.rd.underlying_upper_bound = Nil, !.rd.state = "move_to_underlying"]

\* A faulty end of read_from_underlying(): the reader asks the underlying
\* reader again from where it stands.
read_from_underlying_end_again(w) == [w EXCEPT !.rd.state = "move_to_underlying"]

\* A faulty end of read_from_underlying(): the empty entry of a single-row
\* range is inserted whether or not a range tombstone change was emitted.
read_from_underlying_end_regardless(w) ==
    LET rev == w.rd.is_reversed
        w0 == run_in_update_section(
                  [w EXCEPT !.rd.lower_bound = w.rd.underlying_upper_bound,
                            !.rd.underlying_upper_bound = Nil,
                            !.rd.state = "reading_from_cache"])
        \* _next_row.maybe_refresh()
        nr == IF w.rd.next_row.valid THEN w.rd.next_row
              ELSE cursor_advance_to(w.rows, rev, w.rd.next_row.position)
        same_pos == w.rd.next_row.valid \/ cursor_adjacent(w.rd.next_row.position, nr)
        w1 == [w0 EXCEPT !.rd.next_row = nr]
        rng == w.rd.ck_ranges[w.rd.ck_ranges_curr]
        cur == w.rd.current_tombstone
    IN  IF ~same_pos
        THEN LET w2 == [on_mispopulate(w1) EXCEPT
                           !.rd.next_row_in_range = ~after_current_range(w, nr.position)]
             IN  IF ~nr.continuous
                 THEN start_reading_from_underlying([w2 EXCEPT !.rd.last_row = null_row])
                 ELSE w2
        ELSE IF w.rd.next_row_in_range
        THEN swallow_bad_alloc(maybe_update_continuity(w1))
        ELSE LET w2 ==
                 IF can_populate(w1)
                 THEN IF rng.single
                      THEN IF TRUE
                           THEN LET t == to_table_domain(rev, rng.lb + 1)
                                IN  IF w1.fail THEN bad_alloc(w1)
                                    ELSE IF w1.rows[t].present
                                    THEN store_mutation(w1, "insert_row")
                                    ELSE [store_mutation(w1, "insert_row") EXCEPT !.rows[t] =
                                            rows_entry(FALSE,
                                                       w1.rows[NextEntry(w1.rows, t)].continuous,
                                                       0, TRUE)]
                           ELSE w1
                      ELSE LET r == ensure_population_lower_bound(w1)
                               tu == to_table_domain(rev, w.rd.upper_bound)
                               tc == IF rev THEN r.w.rd.last_row.pos ELSE tu
                           IN  IF r.ok /\ r.w.fail
                               THEN bad_alloc(r.w)
                               ELSE IF r.ok
                               THEN maybe_drop_last_entry(
                                       [store_mutation(store_mutation(r.w, "insert_dummy"),
                                                       "set_continuous") EXCEPT !.rows =
                                           [insert_entry(@, tu, rows_entry(TRUE, FALSE, 0, FALSE))
                                               EXCEPT ![tc].continuous = TRUE,
                                                      ![tc].range_tombstone = cur]],
                                       cur)
                               ELSE r.w
                 ELSE on_mispopulate(w1)
             IN  IF w2.thrown THEN swallow_bad_alloc(w2)
                 ELSE swallow_bad_alloc(catch_bad_alloc(move_to_next_range(w2)))

\* read_from_underlying(): the underlying slice is exhausted.
read_from_underlying_end(w) ==
    LET rev == w.rd.is_reversed
        w0 == run_in_update_section(
                  [w EXCEPT !.rd.lower_bound = w.rd.underlying_upper_bound,
                            !.rd.underlying_upper_bound = Nil,
                            !.rd.state = "reading_from_cache"])
        \* _next_row.maybe_refresh()
        nr == IF w.rd.next_row.valid THEN w.rd.next_row
              ELSE cursor_advance_to(w.rows, rev, w.rd.next_row.position)
        same_pos == w.rd.next_row.valid \/ cursor_adjacent(w.rd.next_row.position, nr)
        w1 == [w0 EXCEPT !.rd.next_row = nr]
        rng == w.rd.ck_ranges[w.rd.ck_ranges_curr]
        cur == w.rd.current_tombstone
    IN  IF ~same_pos
        THEN LET w2 == [on_mispopulate(w1) EXCEPT
                           !.rd.next_row_in_range = ~after_current_range(w, nr.position)]
             IN  IF ~nr.continuous
                 THEN start_reading_from_underlying([w2 EXCEPT !.rd.last_row = null_row])
                 ELSE w2
        ELSE IF w.rd.next_row_in_range
        THEN swallow_bad_alloc(maybe_update_continuity(w1))
        ELSE LET w2 ==
                 IF can_populate(w1)
                 THEN IF rng.single
                      THEN IF ~w.rd.has_rt
                           THEN LET t == to_table_domain(rev, rng.lb + 1)
                                IN  IF w1.fail THEN bad_alloc(w1)
                                    ELSE IF w1.rows[t].present
                                    THEN store_mutation(w1, "insert_row")
                                    ELSE [store_mutation(w1, "insert_row") EXCEPT !.rows[t] =
                                            rows_entry(FALSE,
                                                       w1.rows[NextEntry(w1.rows, t)].continuous,
                                                       0, TRUE)]
                           ELSE w1
                      ELSE LET r == ensure_population_lower_bound(w1)
                               tu == to_table_domain(rev, w.rd.upper_bound)
                               tc == IF rev THEN r.w.rd.last_row.pos ELSE tu
                           IN  IF r.ok /\ r.w.fail
                               THEN bad_alloc(r.w)
                               ELSE IF r.ok
                               THEN maybe_drop_last_entry(
                                       [store_mutation(store_mutation(r.w, "insert_dummy"),
                                                       "set_continuous") EXCEPT !.rows =
                                           [insert_entry(@, tu, rows_entry(TRUE, FALSE, 0, FALSE))
                                               EXCEPT ![tc].continuous = TRUE,
                                                      ![tc].range_tombstone = cur]],
                                       cur)
                               ELSE r.w
                 ELSE on_mispopulate(w1)
             IN  IF w2.thrown THEN swallow_bad_alloc(w2)
                 ELSE swallow_bad_alloc(catch_bad_alloc(move_to_next_range(w2)))

\* ---------------------------------------------------- inputs of the model
\* Range tombstones of a source: tombstone 1 over the segments in [a, b) and,
\* when MaxTomb allows it, tombstone 2 over the segments in [b, c).
TombPattern(a, b, c) ==
    [p \in SegStarts |-> IF a <= p /\ p < b THEN 1
                         ELSE IF b <= p /\ p < c /\ MaxTomb >= 2 THEN 2 ELSE 0]

\* The tombstone patterns read: none; one over the whole partition; one over
\* the first key alone; one over the gap after the first key alone; one from
\* before the first key to after the last; one from the first gap to the end;
\* and one up to the first gap followed by another one to the end.
TombPatterns ==
    {TombPattern(0, 0, 0), TombPattern(0, MaxPos, MaxPos), TombPattern(1, 3, 3),
     TombPattern(3, 4, 4), TombPattern(1, MaxPos - 1, MaxPos - 1),
     TombPattern(3, MaxPos, MaxPos), TombPattern(0, 3, MaxPos)}

EmptySource == [rows |-> {}, tomb |-> [p \in SegStarts |-> 0], static |-> "none",
                ptomb |-> 0, exists |-> TRUE]

\* The sources read: every set of rows under every tombstone pattern, without
\* static columns; and the source without clustered data with each kind of
\* static row, with a partition tombstone, and as an absent partition.
Sources ==
    {[EmptySource EXCEPT !.rows = rs, !.tomb = tp] : rs \in SUBSET Keys, tp \in TombPatterns}
    \cup {[EmptySource EXCEPT !.static = st, !.ptomb = pt] : st \in {"empty", "row"}, pt \in {0, 1}}
    \cup {[EmptySource EXCEPT !.exists = FALSE]}

unpositioned_cursor ==
    [position |-> 0, valid |-> FALSE, at_a_row |-> FALSE, dummy |-> FALSE,
     continuous |-> FALSE, range_tombstone |-> 0, range_tombstone_for_row |-> 0]

\* The reader as its constructor leaves it.
cache_flat_mutation_reader(crr, rev, latest, phase_ok) ==
    [state |-> "before_static_row",
     ck_ranges |-> crr,
     ck_ranges_curr |-> 1,
     last_row |-> null_row,
     lower_bound |-> 0,
     upper_bound |-> 0,
     underlying_upper_bound |-> Nil,
     next_row |-> unpositioned_cursor,
     current_tombstone |-> 0,
     next_row_in_range |-> FALSE,
     has_rt |-> FALSE,
     population_range_starts_before_all_rows |-> FALSE,
     underlying |-> FALSE,
     is_reversed |-> rev,
     at_latest_version |-> latest,
     at_oldest_version |-> TRUE,
     phase_ok |-> phase_ok,
     end_of_stream |-> FALSE]

NoStats == [mispopulate |-> 0, row_hit |-> 0, row_miss |-> 0,
            static_row_insert |-> 0, row_evictions |-> 0]

\* What a snapshot can be for its reader: at the latest version in the
\* cache's current phase, at the latest version in an older phase, or at an
\* older version in the current phase.
SnapshotKinds == {<<TRUE, TRUE>>, <<TRUE, FALSE>>, <<FALSE, TRUE>>}

\* The clustering_key_filter_ranges the reads are made with, ordered and
\* non-overlapping, each range the half-open query-domain position range
\* [lb, ub) and single telling a singular range of one full key: no range,
\* the whole partition, the keys' span, each single key, the part from the
\* first gap on, and the first key followed by the rest.
FirstFilters ==
    {<<>>,
     <<[lb |-> 0, ub |-> MaxPos, single |-> FALSE]>>,
     <<[lb |-> 1, ub |-> MaxPos - 1, single |-> FALSE]>>,
     <<[lb |-> 3, ub |-> MaxPos, single |-> FALSE]>>,
     <<[lb |-> 1, ub |-> 3, single |-> FALSE], [lb |-> 3, ub |-> MaxPos, single |-> FALSE]>>}
    \cup {<<[lb |-> before_key_of(k), ub |-> after_key(k), single |-> TRUE]>> : k \in Keys}

\* The last entry before table position t, or Nil when t is the first.
PrevEntry(rws, t) ==
    IF \E x \in EntryPositions(rws) : x < t
    THEN CHOOSE x \in EntryPositions(rws) :
             x < t /\ \A y \in EntryPositions(rws) : y < t => y <= x
    ELSE Nil

\* The interval a continuity flag at t speaks for holds no source row without
\* an entry, and the source's range tombstone over it is rt. The segment of
\* a row entry's own key is left to RowAgrees.
IntervalAgrees(rws, s, t, rt) ==
    LET p == PrevEntry(rws, t)
    IN  /\ \A k \in s.rows : ~(p < at_key(k) /\ at_key(k) < t)
        /\ \A q \in SegStarts :
              (p <= q /\ q < t /\ ~(is_clustering_row(t) /\ q = t - 1)) => s.tomb[q] = rt

\* The row entry at t agrees with the source: it holds the source's row, or
\* is empty where the source has none, under the source's range tombstone.
RowAgrees(rws, s, t) ==
    /\ rws[t].empty <=> key_of(t) \notin s.rows
    /\ rws[t].range_tombstone = s.tomb[t - 1]

\* Every cached row, range tombstone and continuous interval agrees with s.
CacheConsistent(rws, sn, s) ==
    /\ \A t \in EntryPositions(rws) :
          /\ ~rws[t].dummy => RowAgrees(rws, s, t)
          /\ rws[t].continuous => IntervalAgrees(rws, s, t, rws[t].range_tombstone)
    /\ sn.static_row_continuous => (sn.static_row <=> s.static = "row")

\* ------------------------------------------------------------ specification
\* A reader before its first call: owned tells that it was constructed with
\* a std::unique_ptr<read_context> (_read_context_holder engaged),
\* schema_differs that the read-context's underlying reader has another
\* schema than the reader. popped counts the fragments the caller has taken
\* from the buffer; the other fields record the calls made and their results.
Lifecycle(owned, schema_differs) ==
    [owned |-> owned, schema_differs |-> schema_differs, popped |-> 0,
     cut |-> FALSE, cut_at_start |-> FALSE, drained |-> 0, failed |-> FALSE,
     fast_forwards |-> 0, fast_forwards_failed |-> 0,
     closed |-> 0, read_context_closed |-> 0, underlying_closed |-> 0]

\* No range was passed to the underlying reader yet.
NoRange == [lb |-> Nil, ub |-> Nil]

\* No second reader shares the snapshot.
NoPeer ==
    [rd |-> [cache_flat_mutation_reader(<<>>, FALSE, TRUE, TRUE) EXCEPT
                 !.state = "end_of_stream", !.end_of_stream = TRUE],
     under |-> <<>>, out |-> <<>>]

Init ==
    /\ src \in Sources
    /\ rows = make_incomplete
    /\ snp = [static_row |-> FALSE, static_row_continuous |-> FALSE,
              partition_tombstone |-> src.ptomb]
    /\ \E crr \in FirstFilters, rev \in BOOLEAN :
           rd = cache_flat_mutation_reader(crr, rev, TRUE, TRUE)
    /\ under = <<>>
    /\ emitted = <<partition_start(src.ptomb)>>
    /\ stats = NoStats
    /\ hist = [reads |-> 1, reclaims |-> 0, bad_allocs |-> 0,
               same |-> FALSE, out |-> <<>>, consistent |-> TRUE,
               tick |-> FALSE]
    /\ life = Lifecycle(FALSE, FALSE)
    /\ peer = NoPeer
    /\ asked = NoRange

World == [rd |-> rd, rows |-> rows, snp |-> snp, out |-> emitted,
          under |-> under, stats |-> stats, section |-> "none", log |-> {},
          drops |-> {}, fail |-> FALSE, thrown |-> FALSE, fast_forwarded |-> FALSE]

Commit(w) ==
    /\ rd' = w.rd
    /\ rows' = w.rows
    /\ snp' = w.snp
    /\ emitted' = w.out
    /\ under' = w.under
    /\ stats' = w.stats
    /\ UNCHANGED <<src, hist, life, peer, asked>>

FillBufferFirst ==
    /\ rd.state = "before_static_row"
    /\ Commit(fill_buffer_first(World, src))

MoveToUnderlying ==
    /\ rd.state = "move_to_underlying"
    /\ Commit(do_fill_buffer_move_to_underlying(World, src))

ReadFromCache ==
    /\ rd.state = "reading_from_cache"
    /\ Commit(do_fill_buffer_reading_from_cache(World))

ReadFromUnderlying ==
    /\ rd.state = "reading_from_underlying"
    /\ under # <<>>
    /\ Commit(read_from_underlying_fragment(World))

UnderlyingExhausted ==
    /\ rd.state = "reading_from_underlying"
    /\ under = <<>>
    /\ Commit(read_from_underlying_end(World))

\* The cache tracker evicts an entry between two steps of the reader.
Evict ==
    /\ hist.reclaims < MaxReclaims
    /\ \E t \in EntryPositions(rows) :
          /\ t = MaxPos => rows[t].continuous
          /\ rows' = on_evicted(rows, t)
    /\ rd' = [rd EXCEPT !.next_row.valid = FALSE, !.last_row.valid = FALSE]
    /\ stats' = [stats EXCEPT !.row_evictions = @ + 1]
    /\ hist' = [hist EXCEPT !.reclaims = @ + 1]
    /\ UNCHANGED <<src, snp, under, emitted, life, peer, asked>>

\* The arena is compacted between two steps: references become invalid.
InvalidateReferences ==
    /\ hist.reclaims < MaxReclaims
    /\ rd.state \in {"reading_from_cache", "move_to_underlying", "reading_from_underlying"}
    /\ rd.next_row.valid
    /\ rd' = [rd EXCEPT !.next_row.valid = FALSE, !.last_row.valid = FALSE]
    /\ hist' = [hist EXCEPT !.reclaims = @ + 1]
    /\ UNCHANGED <<src, rows, snp, under, emitted, stats, life, peer, asked>>

\* The reader is closed after its partition end and the partition is read
\* again through a new reader.
NextRead ==
    /\ rd.state = "end_of_stream"
    /\ hist.reads < MaxReads
    /\ \E crr \in FirstFilters, rev \in BOOLEAN, k \in SnapshotKinds :
          /\ rd' = cache_flat_mutation_reader(crr, rev, k[1], k[2])
          /\ hist' = [hist EXCEPT
                        !.reads = @ + 1,
                        !.consistent = CacheConsistent(rows, snp, src),
                        !.same = crr = rd.ck_ranges /\ rev = rd.is_reversed,
                        !.out = IF crr = rd.ck_ranges /\ rev = rd.is_reversed
                                THEN emitted ELSE <<>>]
    /\ under' = <<>>
    /\ emitted' = <<partition_start(snp.partition_tombstone)>>
    /\ stats' = NoStats
    /\ UNCHANGED <<src, rows, snp, life, peer, asked>>

Next ==
    \/ FillBufferFirst
    \/ MoveToUnderlying
    \/ ReadFromCache
    \/ ReadFromUnderlying
    \/ UnderlyingExhausted
    \/ Evict
    \/ InvalidateReferences
    \/ NextRead

Spec == Init /\ [][Next]_vars

\* ------------------------------------------------------------------ streams
RECURSIVE SlicesOf(_, _, _, _)
\* The source's fragments in the ranges crr[i..], range by range.
SlicesOf(s, rev, crr, i) ==
    IF i > Len(crr) THEN <<>>
    ELSE SliceFrom(s, rev, crr[i].lb, crr[i].ub, 0) \o SlicesOf(s, rev, crr, i + 1)

\* The underlying source's stream restricted to the filter ranges.
SourceStream(s, rev, crr) ==
    <<partition_start(s.ptomb)>>
    \o (IF s.static = "row" THEN <<static_row>> ELSE <<>>)
    \o SlicesOf(s, rev, crr, 1)
    \o <<partition_end>>

RECURSIVE CoalesceFrom(_, _, _)
\* st[i..] without the range tombstone changes that repeat the tombstone cur
\* of the change before them.
CoalesceFrom(st, i, cur) ==
    IF i > Len(st) THEN <<>>
    ELSE IF st[i].kind = "range_tombstone_change"
         THEN IF st[i].tomb = cur THEN CoalesceFrom(st, i + 1, cur)
              ELSE <<st[i]>> \o CoalesceFrom(st, i + 1, st[i].tomb)
         ELSE <<st[i]>> \o CoalesceFrom(st, i + 1, cur)

Coalesce(st) == CoalesceFrom(st, 1, 0)

Done == rd.state = "end_of_stream"

\* st without the clustering rows that carry no data.
WithoutEmptyRows(st) ==
    SelectSeq(st, LAMBDA f : ~(f.kind = "clustering_row" /\ f.empty))

\* st without the range tombstone changes that are followed by another one
\* at the same position: only the last change at a position takes effect.
LastAtPosition(st) ==
    LET keep == {i \in 1..Len(st) :
                    ~(/\ st[i].kind = "range_tombstone_change"
                      /\ i < Len(st)
                      /\ st[i + 1].kind = "range_tombstone_change"
                      /\ st[i + 1].pos = st[i].pos)}
        RECURSIVE Pick(_)
        Pick(i) == IF i > Len(st) THEN <<>>
                   ELSE (IF i \in keep THEN <<st[i]>> ELSE <<>>) \o Pick(i + 1)
    IN  Pick(1)

\* The data a stream carries: its rows with content and the range tombstone
\* changes that change the tombstone over a non-empty range.
Normalize(st) == Coalesce(LastAtPosition(WithoutEmptyRows(st)))

\* The clustered fragments of st.
Clustered(st) ==
    SelectSeq(st, LAMBDA f : f.kind \in {"clustering_row", "range_tombstone_change"})

\* The tombstone of the last range tombstone change of st, 0 without one.
OpenTomb(st) ==
    LET c == SelectSeq(st, LAMBDA f : f.kind = "range_tombstone_change")
    IN  IF c = <<>> THEN 0 ELSE c[Len(c)].tomb

\* The fragments a step pushes.
Pushed == SubSeq(emitted', Len(emitted) + 1, Len(emitted'))

\* A step within one read, and one taken by the reader itself.
SameRead == hist'.reads = hist.reads
ReaderStep == SameRead /\ hist'.reclaims = hist.reclaims

\* The positions the continuity flags of rws speak for.
Covered(rws) ==
    {p \in Positions : \E t \in EntryPositions(rws) :
        rws[t].continuous /\ PrevEntry(rws, t) < p /\ p <= t}

\* One fill_buffer() step of the reader in world w.
StepOf(w, s) ==
    CASE w.rd.state = "before_static_row" -> fill_buffer_first(w, s)
      [] w.rd.state = "move_to_underlying" -> do_fill_buffer_move_to_underlying(w, s)
      [] w.rd.state = "reading_from_cache" -> do_fill_buffer_reading_from_cache(w)
      [] w.rd.state = "reading_from_underlying" ->
             IF w.under # <<>> THEN read_from_underlying_fragment(w)
             ELSE read_from_underlying_end(w)
      [] OTHER -> w

\* The fill_buffer() step the reader takes from the current state: the world
\* its actions commit.
NextStep == StepOf(World, src)

\* The fragments the step that ends in world w pushes.
PushedBy(w) == SubSeq(w.out, Len(emitted) + 1, Len(w.out))

RECURSIVE RunFrom(_, _, _)
\* The world after the reader ran undisturbed to its end of stream.
RunFrom(w, s, fuel) ==
    IF fuel = 0 \/ w.rd.state = "end_of_stream" THEN w
    ELSE RunFrom(StepOf(w, s), s, fuel - 1)

\* The stream of the read that starts in the current state, were its
\* snapshot of kind k.
StreamAs(k) ==
    RunFrom([World EXCEPT !.rd.at_latest_version = k[1], !.rd.phase_ok = k[2]],
            src, MaxSteps).out

\* ------------------------------------------------------- repeated calls
\* One step of fill_buffer(), in whatever state the reader is; hist.tick
\* flips with every step taken.
FillBuffer ==
    /\ rd.state # "end_of_stream"
    /\ LET w == StepOf(World, src)
       IN  /\ rd' = w.rd
           /\ rows' = w.rows
           /\ snp' = w.snp
           /\ emitted' = w.out
           /\ under' = w.under
           /\ stats' = w.stats
    /\ hist' = [hist EXCEPT !.tick = ~@]
    /\ UNCHANGED <<src, life, peer, asked>>

\* The caller's part of a fill_buffer() step: it can call whenever the end
\* of the stream is not reached, and the call shows in hist.tick.
FillBufferCall ==
    /\ rd.state # "end_of_stream"
    /\ hist' = [hist EXCEPT !.tick = ~@]

\* ------------------------------------------------------ allocation failure
\* A fill_buffer() step in which the arena is exhausted: the first allocation
\* the step asks for throws bad_alloc.
BadAlloc ==
    /\ hist.bad_allocs < MaxBadAllocs
    /\ rd.state # "end_of_stream"
    /\ LET w == StepOf([World EXCEPT !.fail = TRUE], src)
       IN  /\ ~w.fail
           /\ rd' = w.rd
           /\ rows' = w.rows
           /\ snp' = w.snp
           /\ emitted' = w.out
           /\ under' = w.under
           /\ stats' = w.stats
    /\ hist' = [hist EXCEPT !.bad_allocs = @ + 1]
    /\ UNCHANGED <<src, life, peer, asked>>

\* The partition is read again by a reader that can populate: these are the
\* readers that allocate. Its filter is one of those a first read has.
NextPopulatingRead ==
    /\ rd.state = "end_of_stream"
    /\ hist.reads < MaxReads
    /\ \E crr \in FirstFilters, rev \in BOOLEAN :
          /\ rd' = cache_flat_mutation_reader(crr, rev, TRUE, TRUE)
          /\ hist' = [hist EXCEPT
                        !.reads = @ + 1,
                        !.consistent = CacheConsistent(rows, snp, src),
                        !.same = crr = rd.ck_ranges /\ rev = rd.is_reversed,
                        !.out = IF crr = rd.ck_ranges /\ rev = rd.is_reversed
                                THEN emitted ELSE <<>>]
    /\ under' = <<>>
    /\ emitted' = <<partition_start(snp.partition_tombstone)>>
    /\ stats' = NoStats
    /\ UNCHANGED <<src, rows, snp, life, peer, asked>>

NextFill ==
    \/ FillBuffer
    \/ Evict
    \/ InvalidateReferences
    \/ NextPopulatingRead

\* The caller invokes fill_buffer() again and again until the end of the
\* stream: FillBuffer is the only step that flips hist.tick, so the fairness
\* of the caller's call is the fairness of FillBuffer.
SpecFill == Init /\ [][NextFill]_vars /\ WF_hist(FillBufferCall)

\* The first reader of a behaviour with any kind of snapshot: one that may
\* populate, one of an older phase, one at an older version.
InitSnapshot ==
    /\ src \in Sources
    /\ rows = make_incomplete
    /\ snp = [static_row |-> FALSE, static_row_continuous |-> FALSE,
              partition_tombstone |-> src.ptomb]
    /\ \E crr \in FirstFilters, rev \in BOOLEAN, k \in SnapshotKinds :
           rd = cache_flat_mutation_reader(crr, rev, k[1], k[2])
    /\ under = <<>>
    /\ emitted = <<partition_start(src.ptomb)>>
    /\ stats = NoStats
    /\ hist = [reads |-> 1, reclaims |-> 0, bad_allocs |-> 0,
               same |-> FALSE, out |-> <<>>, consistent |-> TRUE,
               tick |-> FALSE]
    /\ life = Lifecycle(FALSE, FALSE)
    /\ peer = NoPeer
    /\ asked = NoRange

NextSnapshot ==
    \/ FillBufferFirst
    \/ MoveToUnderlying
    \/ ReadFromCache
    \/ ReadFromUnderlying
    \/ UnderlyingExhausted
    \/ Evict
    \/ InvalidateReferences
    \/ NextPopulatingRead

\* A first read through any kind of snapshot, then populating reads.
SpecSnapshot == InitSnapshot /\ [][NextSnapshot]_vars

\* The reader is closed after its partition end and the partition is read
\* again through a new reader whose underlying source does not have the
\* partition, while the cache keeps what it holds.
NextReadAbsent ==
    /\ rd.state = "end_of_stream"
    /\ hist.reads < MaxReads
    /\ src.exists
    /\ src' = [EmptySource EXCEPT !.exists = FALSE]
    /\ \E crr \in FirstFilters, rev \in BOOLEAN, k \in SnapshotKinds :
          /\ rd' = cache_flat_mutation_reader(crr, rev, k[1], k[2])
          /\ hist' = [hist EXCEPT
                        !.reads = @ + 1,
                        !.consistent = CacheConsistent(rows, snp, src),
                        !.same = crr = rd.ck_ranges /\ rev = rd.is_reversed,
                        !.out = IF crr = rd.ck_ranges /\ rev = rd.is_reversed
                                THEN emitted ELSE <<>>]
    /\ under' = <<>>
    /\ emitted' = <<partition_start(snp.partition_tombstone)>>
    /\ stats' = NoStats
    /\ UNCHANGED <<rows, snp, life, peer, asked>>

NextAbsent ==
    \/ FillBufferFirst
    \/ MoveToUnderlying
    \/ ReadFromCache
    \/ ReadFromUnderlying
    \/ UnderlyingExhausted
    \/ Evict
    \/ InvalidateReferences
    \/ NextReadAbsent

\* A populating read, then a read whose underlying source lacks the
\* partition.
SpecAbsent == Init /\ [][NextAbsent]_vars

\* --------------------------------------------- two readers of one snapshot
\* The filters of the second reader: the whole partition, the first key
\* followed by the rest, and the first key alone.
PeerFilters ==
    {<<[lb |-> 0, ub |-> MaxPos, single |-> FALSE]>>,
     <<[lb |-> 1, ub |-> 3, single |-> FALSE], [lb |-> 3, ub |-> MaxPos, single |-> FALSE]>>,
     <<[lb |-> before_key_of(1), ub |-> after_key(1), single |-> TRUE]>>}

\* Two readers are created over the same snapshot of the partition before
\* either takes a step.
InitShared ==
    /\ src \in Sources
    /\ rows = make_incomplete
    /\ snp = [static_row |-> FALSE, static_row_continuous |-> FALSE,
              partition_tombstone |-> src.ptomb]
    /\ \E crr \in FirstFilters, rev \in BOOLEAN :
           rd = cache_flat_mutation_reader(crr, rev, TRUE, TRUE)
    /\ under = <<>>
    /\ emitted = <<partition_start(src.ptomb)>>
    /\ stats = NoStats
    /\ hist = [reads |-> 1, reclaims |-> 0, bad_allocs |-> 0,
               same |-> FALSE, out |-> <<>>, consistent |-> TRUE,
               tick |-> FALSE]
    /\ life = Lifecycle(FALSE, FALSE)
    /\ \E crr \in PeerFilters, rev \in BOOLEAN :
           peer = [rd |-> cache_flat_mutation_reader(crr, rev, TRUE, TRUE),
                   under |-> <<>>,
                   out |-> <<partition_start(src.ptomb)>>]
    /\ asked = NoRange

\* What a step that ended in world w leaves of another reader r of the
\* snapshot: maybe_drop_last_entry() calls invalidate_references() on the
\* region's allocator, so r must refresh its cursor and weak reference.
Disturbed(r, w) ==
    IF w.drops # {}
    THEN [r EXCEPT !.next_row.valid = FALSE, !.last_row.valid = FALSE]
    ELSE r

\* One of the two readers, the first one or its peer, runs from one
\* suspension point of fill_buffer() to the next: it steps in the shared
\* entries, snapshot and counters with its own fields, slice and stream.
Turn(first) ==
    \E mine \in {IF first THEN [rd |-> rd, under |-> under, out |-> emitted] ELSE peer} :
    \E w \in {StepOf([World EXCEPT !.rd = mine.rd, !.under = mine.under,
                                   !.out = mine.out], src)} :
        /\ mine.rd.state # "end_of_stream"
        /\ rows' = w.rows
        /\ snp' = w.snp
        /\ stats' = w.stats
        /\ rd' = IF first THEN w.rd ELSE Disturbed(rd, w)
        /\ under' = IF first THEN w.under ELSE under
        /\ emitted' = IF first THEN w.out ELSE emitted
        /\ peer' = IF first THEN [peer EXCEPT !.rd = Disturbed(peer.rd, w)]
                   ELSE [rd |-> w.rd, under |-> w.under, out |-> w.out]
        /\ UNCHANGED <<src, hist, life, asked>>

\* The arena is compacted while both readers are suspended with positioned
\* cursors: the references of both become invalid.
SharedCompaction ==
    /\ hist.reclaims < MaxReclaims
    /\ rd.next_row.valid /\ peer.rd.next_row.valid
    /\ rd' = [rd EXCEPT !.next_row.valid = FALSE, !.last_row.valid = FALSE]
    /\ peer' = [peer EXCEPT !.rd.next_row.valid = FALSE, !.rd.last_row.valid = FALSE]
    /\ hist' = [hist EXCEPT !.reclaims = @ + 1]
    /\ UNCHANGED <<src, rows, snp, under, emitted, stats, life, asked>>

\* The scheduler resumes either reader, or the arena is compacted.
NextShared ==
    \/ \E first \in BOOLEAN : Turn(first)
    \/ SharedCompaction

\* Two readers of one snapshot, interleaved at their suspension points.
SpecShared == InitShared /\ [][NextShared]_vars

NextAlloc ==
    \/ FillBufferFirst
    \/ MoveToUnderlying
    \/ ReadFromCache
    \/ ReadFromUnderlying
    \/ UnderlyingExhausted
    \/ BadAlloc
    \/ Evict
    \/ InvalidateReferences
    \/ NextPopulatingRead

\* The populating reads of Spec with allocation failures.
SpecAlloc == Init /\ [][NextAlloc]_vars

\* ---------------------------------------------------------------- lifecycle
\* One reader from its construction to its close(): the caller calls
\* fill_buffer() until end of stream, takes fragments from the buffer, may
\* call next_partition() and fast_forward_to(position_range), and closes.
InitLifecycle ==
    /\ src \in Sources
    /\ rows = make_incomplete
    /\ snp = [static_row |-> FALSE, static_row_continuous |-> FALSE,
              partition_tombstone |-> src.ptomb]
    /\ \E crr \in FirstFilters, rev \in BOOLEAN :
           rd = cache_flat_mutation_reader(crr, rev, TRUE, TRUE)
    /\ under = <<>>
    /\ emitted = <<partition_start(src.ptomb)>>
    /\ stats = NoStats
    /\ hist = [reads |-> 1, reclaims |-> 0, bad_allocs |-> 0,
               same |-> FALSE, out |-> <<>>, consistent |-> TRUE,
               tick |-> FALSE]
    /\ \E owned \in BOOLEAN, schema_differs \in BOOLEAN :
           life = Lifecycle(owned, schema_differs)
    /\ peer = NoPeer
    /\ asked = NoRange

\* The caller calls fill_buffer(): the reader is open, no call has failed and
\* the end of stream is not reached.
FillBufferCalled == life.closed = 0 /\ ~life.failed /\ ~rd.end_of_stream

\* The caller takes the next fragment from the buffer.
Pop ==
    /\ life.closed = 0
    /\ life.popped < Len(emitted)
    /\ life' = [life EXCEPT !.popped = @ + 1]
    /\ UNCHANGED <<src, rows, snp, rd, under, emitted, stats, hist, peer, asked>>

\* The underlying reader fails: the failure leaves fill_buffer() to the caller.
UnderlyingFailure ==
    /\ FillBufferCalled
    /\ rd.state = "reading_from_underlying"
    /\ life' = [life EXCEPT !.failed = TRUE]
    /\ UNCHANGED <<src, rows, snp, rd, under, emitted, stats, hist, peer, asked>>

\* The fragments in the reader's buffer: those emitted and not yet taken by
\* the caller.
Buffer(out, popped) == SubSeq(out, popped + 1, Len(out))

\* clear_buffer_to_next_partition(): the fragments at the front of the buffer
\* are erased up to the first partition_start in it; a buffer that starts
\* with a partition_start is left as it is.
RECURSIVE clear_buffer_to_next_partition(_)
clear_buffer_to_next_partition(buf) ==
    IF buf = <<>> \/ Head(buf).kind = "partition_start" THEN buf
    ELSE clear_buffer_to_next_partition(Tail(buf))

\* A faulty next_partition(): the buffer is cleared and the stream goes on.
next_partition_unmarked(w, popped) ==
    [w EXCEPT !.out = SubSeq(@, 1, popped)
                          \o clear_buffer_to_next_partition(Buffer(@, popped))]

\* next_partition(): the end of the stream is marked if the buffer is empty
\* after clear_buffer_to_next_partition().
next_partition(w, popped) ==
    LET buf == clear_buffer_to_next_partition(Buffer(w.out, popped))
    IN  [w EXCEPT !.out = SubSeq(@, 1, popped) \o buf,
                  !.rd.end_of_stream = IF buf = <<>> THEN TRUE ELSE @]

NextPartition ==
    /\ life.closed = 0
    /\ ~life.failed
    /\ ~life.cut
    /\ LET w == next_partition(World, life.popped)
       IN  rd' = w.rd /\ emitted' = w.out
    /\ life' = [life EXCEPT !.cut = TRUE,
                             !.cut_at_start = (life.popped = 0),
                             !.drained = Len(emitted) - Len(emitted')]
    /\ UNCHANGED <<src, rows, snp, under, stats, hist, peer, asked>>

\* A faulty fast_forward_to(position_range): it does what
\* fast_forward_to(partition_range) does.
fast_forward_to_as_partition_range(w, popped) ==
    [failed |-> FALSE,
     w |-> [w EXCEPT !.out = SubSeq(@, 1, popped), !.rd.end_of_stream = TRUE]]

\* fast_forward_to(position_range): an exceptional future holding
\* std::bad_function_call.
fast_forward_to(w, popped) == [failed |-> TRUE, w |-> w]

FastForwardTo ==
    /\ life.closed = 0
    /\ life.fast_forwards < MaxFastForwards
    /\ LET r == fast_forward_to(World, life.popped)
       IN  /\ rd' = r.w.rd
           /\ emitted' = r.w.out
           /\ life' = [life EXCEPT !.fast_forwards = @ + 1,
                                    !.fast_forwards_failed =
                                        IF r.failed THEN @ + 1 ELSE @]
    /\ UNCHANGED <<src, rows, snp, under, stats, hist, peer, asked>>

\* _underlying_holder is engaged: ensure_underlying() has wrapped an
\* underlying reader of another schema in a delegating reader.
underlying_holder(l, r) == r.underlying /\ l.schema_differs

\* A faulty close(): the read-context is closed whether owned or not.
close_borrowed(l, r) ==
    [l EXCEPT !.closed = @ + 1,
              !.read_context_closed = @ + 1,
              !.underlying_closed = IF underlying_holder(l, r) THEN @ + 1 ELSE @]

\* A faulty close(): after a failed fill_buffer() it does not resolve.
close_unless_failed(l, r) ==
    IF l.failed THEN l
    ELSE [l EXCEPT !.closed = @ + 1,
                   !.read_context_closed = IF l.owned THEN @ + 1 ELSE @,
                   !.underlying_closed = IF underlying_holder(l, r) THEN @ + 1 ELSE @]

\* close(): both closes are started and the call resolves when both have.
close(l, r) ==
    [l EXCEPT !.closed = @ + 1,
              !.read_context_closed = IF l.owned THEN @ + 1 ELSE @,
              !.underlying_closed = IF underlying_holder(l, r) THEN @ + 1 ELSE @]

Close ==
    /\ life.closed = 0
    /\ life' = close(life, rd)
    /\ UNCHANGED <<src, rows, snp, rd, under, emitted, stats, hist, peer, asked>>

NextLifecycle ==
    \/ (FillBufferCalled /\ FillBufferFirst)
    \/ (FillBufferCalled /\ MoveToUnderlying)
    \/ (FillBufferCalled /\ ReadFromCache)
    \/ (FillBufferCalled /\ ReadFromUnderlying)
    \/ (FillBufferCalled /\ UnderlyingExhausted)
    \/ (FillBufferCalled /\ BadAlloc)
    \/ UnderlyingFailure
    \/ Pop
    \/ NextPartition
    \/ FastForwardTo
    \/ Close

SpecLifecycle == InitLifecycle /\ [][NextLifecycle]_vars

\* The caller closes the reader in the end, whatever it has done with it.
SpecClose == InitLifecycle /\ [][NextLifecycle]_vars /\ WF_vars(Close)

\* ------------------------------------------------------- calls after the end
\* fast_forward_to(const dht::partition_range&): the buffer is cleared and
\* the end of the stream is marked.
fast_forward_to_partition_range(w, popped) ==
    [w EXCEPT !.out = SubSeq(@, 1, popped), !.rd.end_of_stream = TRUE]

FastForwardToPartitionRange ==
    /\ life.fast_forwards < MaxFastForwards
    /\ LET w == fast_forward_to_partition_range(World, life.popped)
       IN  rd' = w.rd /\ emitted' = w.out
    /\ life' = [life EXCEPT !.fast_forwards = @ + 1]
    /\ UNCHANGED <<src, rows, snp, under, stats, hist, peer, asked>>

\* fill_buffer() of a reader whose _end_of_stream is set: the branch of
\* state before_static_row runs whatever the flag says, and do_until() stops
\* at once on the flag.
fill_buffer_at_end_of_stream(w, s) ==
    IF w.rd.state = "before_static_row" THEN fill_buffer_first(w, s) ELSE w

\* The caller calls fill_buffer() although the end of the stream is marked.
FillBufferAtEndOfStream ==
    /\ rd.end_of_stream
    /\ Commit(fill_buffer_at_end_of_stream(World, src))

\* The caller's calls: fill_buffer() up to the end of the stream and after
\* it, taking a fragment, next_partition() and fast_forward_to().
NextForward ==
    \/ (FillBufferCalled /\ FillBufferFirst)
    \/ (FillBufferCalled /\ MoveToUnderlying)
    \/ (FillBufferCalled /\ ReadFromCache)
    \/ (FillBufferCalled /\ ReadFromUnderlying)
    \/ (FillBufferCalled /\ UnderlyingExhausted)
    \/ Pop
    \/ NextPartition
    \/ FastForwardToPartitionRange
    \/ FillBufferAtEndOfStream

\* The calls a caller can make on one reader, those after the end of the
\* stream included.
SpecForward == InitLifecycle /\ [][NextForward]_vars

\* ------------------------------------------------ ranges asked of underlying
\* One fill_buffer() step of the reader; asked keeps the position range
\* that the step passes to the underlying reader's fast_forward_to().
RangedStep ==
    /\ rd.state # "end_of_stream"
    /\ \E w \in {StepOf(World, src)} :
          /\ rd' = w.rd
          /\ rows' = w.rows
          /\ snp' = w.snp
          /\ emitted' = w.out
          /\ under' = w.under
          /\ stats' = w.stats
          /\ asked' = IF w.fast_forwarded
                      THEN [lb |-> rd.lower_bound, ub |-> w.rd.underlying_upper_bound]
                      ELSE asked
    /\ UNCHANGED <<src, hist, life, peer>>

\* The partition is read again by a new reader that can populate; it has
\* asked the underlying reader for nothing yet.
RangedRead ==
    /\ rd.state = "end_of_stream"
    /\ hist.reads < MaxReads
    /\ \E crr \in FirstFilters, rev \in BOOLEAN :
          rd' = cache_flat_mutation_reader(crr, rev, TRUE, TRUE)
    /\ hist' = [hist EXCEPT !.reads = @ + 1]
    /\ under' = <<>>
    /\ emitted' = <<partition_start(snp.partition_tombstone)>>
    /\ stats' = NoStats
    /\ asked' = NoRange
    /\ UNCHANGED <<src, rows, snp, life, peer>>

NextRanges ==
    \/ RangedStep
    \/ Evict
    \/ InvalidateReferences
    \/ RangedRead

\* Reads of one partition, one after the other, with evictions and
\* compactions in between, and the ranges they ask of the underlying reader.
SpecRanges == InitSnapshot /\ [][NextRanges]_vars

\* ------------------------------------------------------------------- claims

\* C1: a read that starts on a cache consistent with the source emits, up to
\* its end of stream, the source's stream restricted to the filter ranges.
\* The streams are compared by the data they carry (Normalize), which is
\* weaker than the coalescing the claim allows, so a violation is a
\* difference in rows or tombstones.
C1_Equivalence ==
    (Done /\ hist.consistent) =>
        Normalize(emitted) = Normalize(SourceStream(src, rd.is_reversed, rd.ck_ranges))

\* C2 as stated: the positions of the emitted clustered fragments are
\* strictly increasing, rows lie below lower_bound and range tombstone
\* changes at or below it.
C2_StrictOrder ==
    LET c == Clustered(emitted)
    IN  /\ \A i \in 1..Len(c) : \A j \in 1..Len(c) : i < j => c[i].pos < c[j].pos
        /\ \A i \in 1..Len(c) :
              IF c[i].kind = "clustering_row" THEN c[i].pos < rd.lower_bound
              ELSE c[i].pos <= rd.lower_bound

\* C2: the positions of the emitted clustered fragments never decrease, and
\* increase strictly from and to every clustering row (only range tombstone
\* changes can share a position); until the end of stream the rows lie below
\* lower_bound and the range tombstone changes at or below it.
C2_Order ==
    LET c == Clustered(emitted)
    IN  /\ \A i \in 1..Len(c) : \A j \in 1..Len(c) : i < j =>
              /\ c[i].pos <= c[j].pos
              /\ (c[i].kind = "clustering_row" \/ c[j].kind = "clustering_row")
                     => c[i].pos < c[j].pos
        /\ ~Done => \A i \in 1..Len(c) :
              IF c[i].kind = "clustering_row" THEN c[i].pos < rd.lower_bound
              ELSE c[i].pos <= rd.lower_bound

\* A read served from the cache and from the underlying reader has ended
\* with a row and two range tombstone changes at one position in its stream.
C2_Witness ==
    LET c == Clustered(emitted)
    IN  /\ Done
        /\ stats.row_hit > 0
        /\ stats.row_miss > 0
        /\ \E i \in 1..Len(c) : c[i].kind = "clustering_row"
        /\ \E i \in 1..Len(c) - 1 :
              /\ c[i].kind = "range_tombstone_change"
              /\ c[i + 1].kind = "range_tombstone_change"
              /\ c[i].pos = c[i + 1].pos

C3_Framed ==
    /\ emitted # <<>>
    /\ emitted[1] = partition_start(snp.partition_tombstone)
    /\ \A i \in 1..Len(emitted) :
          /\ emitted[i].kind = "partition_start" => i = 1
          /\ emitted[i].kind = "partition_end" => i = Len(emitted)
    /\ Done <=> emitted[Len(emitted)].kind = "partition_end"
    /\ Done <=> rd.end_of_stream

C3_Terminal ==
    Done => \A w \in {NextStep} : w.rd.state = "end_of_stream" /\ w.out = emitted

\* C3: the stream of a read starts with the partition start carrying the
\* snapshot's partition tombstone; the partition end is pushed only once, as
\* the last fragment, exactly when the state is end_of_stream; and in
\* end_of_stream the reader neither changes state nor pushes a fragment.
C3_StartAndEnd == C3_Framed /\ C3_Terminal

\* The last read has reached end_of_stream after clustered fragments.
C3_Witness ==
    /\ Done
    /\ rd.end_of_stream
    /\ hist.reads = MaxReads
    /\ Len(emitted) >= 4

C4_Balanced ==
    /\ Done => OpenTomb(emitted) = 0
    /\ LET c == SelectSeq(emitted, LAMBDA f : f.kind = "range_tombstone_change")
       IN  \A i \in 1..Len(c) : \A j \in 1..Len(c) : i < j => c[i].pos <= c[j].pos

C4_LeavesClosed ==
    \A w \in {NextStep} :
        w.rd.ck_ranges_curr # rd.ck_ranges_curr =>
            /\ w.rd.current_tombstone = 0
            /\ OpenTomb(w.out) = 0
            /\ (rd.state = "reading_from_underlying" /\ rd.current_tombstone # 0) =>
                   PushedBy(w)[1] = range_tombstone_change(rd.upper_bound, 0)

\* C4: range tombstone changes never step back, so a closing change is not
\* below its opening one; a step that leaves a filter range leaves no
\* tombstone open and current_tombstone empty, and when it leaves the range
\* with current_tombstone set (at the end of an underlying slice) the
\* closing change it pushes is at upper_bound; no tombstone is open at the
\* partition end.
C4_BalancedChanges == C4_Balanced /\ C4_LeavesClosed

\* The reader left the first of two filter ranges with a tombstone open,
\* closed it at that range's upper bound, and opened one in the second range.
C4_Witness ==
    /\ Done
    /\ Len(rd.ck_ranges) = 2
    /\ \E i \in 1..Len(emitted) : \E j \in 1..Len(emitted) :
          /\ i < j
          /\ emitted[i] = range_tombstone_change(rd.ck_ranges[1].ub, 0)
          /\ emitted[j].kind = "range_tombstone_change"
          /\ emitted[j].tomb # 0
          /\ \E h \in 1..i : emitted[h].kind = "range_tombstone_change" /\ emitted[h].tomb # 0

\* C5: current_tombstone is the tombstone of the last range tombstone change
\* pushed in this read, and empty when none was pushed.
C5_CurrentTombstone == rd.current_tombstone = OpenTomb(emitted)

\* The underlying reader's closing change at the slice's end was consumed
\* without being pushed, while a tombstone pushed earlier is still open.
C5_Witness ==
    /\ rd.state = "reading_from_underlying"
    /\ under = <<>>
    /\ rd.lower_bound = rd.underlying_upper_bound
    /\ rd.current_tombstone # 0
    /\ OpenTomb(emitted) = rd.current_tombstone

\* C6: a complete read with the filter ranges and direction of the read
\* before it emits the data that read emitted.
C6_Idempotence ==
    (Done /\ hist.same) => Normalize(emitted) = Normalize(hist.out)

\* C7: from a cache consistent with the source, the data of the stream a
\* read emits is the same whether its snapshot allows population (latest
\* version, current phase) or not.
C7_PopulationIndependence ==
    (/\ rd.state = "before_static_row"
     /\ rd.at_latest_version /\ rd.phase_ok
     /\ CacheConsistent(rows, snp, src)) =>
        \A k \in SnapshotKinds :
            Normalize(StreamAs(k)) = Normalize(StreamAs(<<TRUE, TRUE>>))

\* C8: the interval behind every continuity flag holds no source row that
\* has no entry, and the range tombstone stored with the flag is the
\* source's over that interval.
C8_ContinuitySound ==
    \A t \in EntryPositions(rows) :
        rows[t].continuous => IntervalAgrees(rows, src, t, rows[t].range_tombstone)

\* C9: no step of the reader takes a position out of the continuous
\* intervals.
C9_ContinuityMonotone == [][ReaderStep => Covered(rows) \subseteq Covered(rows')]_vars

\* C10: every row entry stores the range tombstone the source applies at
\* its key.
C10_RowTombstone ==
    \A t \in EntryPositions(rows) :
        ~rows[t].dummy => rows[t].range_tombstone = src.tomb[t - 1]

\* C11 as stated: a step of a reader that cannot populate leaves the cache
\* contents unchanged.
C11_UnchangedWhenForbidden ==
    ~(rd.at_latest_version /\ rd.phase_ok) =>
        \A w \in {NextStep} : w.rows = rows /\ w.snp = snp

\* C11: a step of a reader that cannot populate (snapshot not at the latest
\* version, or read in an older phase) inserts no entry and writes no
\* continuity flag, range tombstone, static row or static row continuity;
\* the only change it makes to the cache is the eviction of one continuous
\* dummy (maybe_drop_last_entry), which takes the latest version but not the
\* current phase.
C11_PopulationGuarded ==
    ~(rd.at_latest_version /\ rd.phase_ok) =>
        \A w \in {NextStep} :
            /\ w.snp = snp
            /\ \/ w.rows = rows
               \/ /\ rd.at_latest_version
                  /\ ~rd.is_reversed
                  /\ \E t \in EntryPositions(rows) :
                        /\ rows[t].dummy
                        /\ rows[t].continuous
                        /\ w.rows = on_evicted(rows, t)

\* A reader in an older phase has skipped a population and has dropped a
\* dummy of the cache, without any eviction by the tracker.
C11_Witness ==
    /\ rd.at_latest_version
    /\ ~rd.phase_ok
    /\ hist.reclaims = 0
    /\ stats.mispopulate > 0
    /\ stats.row_evictions > 0

\* C12: every change a step of the reader makes to the row-entry store (an
\* entry inserted, a continuity flag or range tombstone set, a dummy evicted)
\* is made inside an update section with the allocator active, never inside
\* a read section.
C12_UpdateSectionOnly ==
    [][ReaderStep =>
          \A m \in StepOf(World, src).log : m.section = "update" /\ m.allocator]_vars

\* The range tombstone the continuity flags of rws give position p: the one
\* stored with the first entry at or after p.
CoveringTombstone(rws, p) ==
    rws[CHOOSE t \in EntryPositions(rws) :
            p <= t /\ \A y \in EntryPositions(rws) : p <= y => t <= y].range_tombstone

\* C13: maybe_drop_last_entry evicts the entry of last_row only if it is a
\* continuous dummy whose range tombstone is that of the interval after it
\* and the snapshot is at the latest and the oldest version; the drop leaves
\* every position with the continuity and the covering range tombstone it
\* had, last_row null and next_row valid.
C13_DropKeepsContents ==
    [][ReaderStep =>
          \A d \in StepOf(World, src).drops :
              /\ d.before[d.pos].dummy
              /\ d.before[d.pos].continuous
              /\ d.before[d.pos].range_tombstone =
                     d.before[NextEntry(d.before, d.pos)].range_tombstone
              /\ d.rd.at_latest_version
              /\ d.rd.at_oldest_version
              /\ Covered(d.after) = Covered(d.before)
              /\ \A p \in Covered(d.before) :
                    CoveringTombstone(d.after, p) = CoveringTombstone(d.before, p)
              /\ d.rd.last_row.pos = Nil
              /\ d.rd.next_row.valid]_vars

\* The tracker evicts the entry last_row refers to, between two fill_buffer()
\* calls of a read that has started and not ended.
LastRowEvicted ==
    /\ hist'.reclaims = hist.reclaims + 1
    /\ rd.state \notin {"before_static_row", "end_of_stream"}
    /\ rd.last_row.pos # Nil
    /\ rows[rd.last_row.pos].present
    /\ rows' = on_evicted(rows, rd.last_row.pos)

\* C14: when the entry of last_row is evicted between two fill_buffer()
\* calls, the read ends with the stream it would have emitted without the
\* eviction, and the mispopulation counter is incremented.
C14_EvictedLastRow ==
    [][LastRowEvicted =>
          /\ Normalize(RunFrom(World', src, MaxSteps).out) =
                 Normalize(RunFrom(World, src, MaxSteps).out)
          /\ RunFrom(World', src, MaxSteps).stats.mispopulate > stats.mispopulate]_vars

\* C15: a bad_alloc at a population site fails no fill_buffer(): the step
\* ends without an error, the references into the arena are invalidated, the
\* population is skipped (the step adds no entry and no continuity but what
\* it adds without the failure), and the read ends with the stream it emits
\* without the failure.
C15_BadAllocSwallowed ==
    [][(hist'.bad_allocs = hist.bad_allocs + 1) =>
          /\ ~StepOf([World EXCEPT !.fail = TRUE], src).thrown
          /\ ~rd'.next_row.valid
          /\ EntryPositions(rows') \subseteq
                 EntryPositions(rows) \cup EntryPositions(StepOf(World, src).rows)
          /\ Covered(rows') \subseteq Covered(rows) \cup Covered(StepOf(World, src).rows)
          /\ Normalize(RunFrom(World', src, MaxSteps).out) =
                 Normalize(RunFrom(World, src, MaxSteps).out)]_vars

AdapterClosed ==
    \/ life.underlying_closed = 1
    \/ life.read_context_closed = 1 /\ rd.underlying

\* C17 as stated: after close() the read-context is closed exactly when the
\* reader owns it, and the underlying reader is closed exactly when it was
\* opened.
C17_ClosesWhatWasOpened ==
    life.closed = 1 =>
        /\ life.read_context_closed = 1 <=> life.owned
        /\ AdapterClosed <=> rd.underlying

\* C17: after close() the read-context is closed, once, exactly when the
\* reader owns it, and the reader has closed an underlying reader, once,
\* exactly when ensure_underlying() made it a delegating reader of its own
\* because the read-context's underlying reader has another schema; before
\* close() nothing is closed.
C17_ClosesWhatItOwns ==
    /\ life.read_context_closed = (IF life.closed = 1 /\ life.owned THEN 1 ELSE 0)
    /\ life.underlying_closed =
           (IF life.closed = 1 /\ rd.underlying /\ life.schema_differs THEN 1 ELSE 0)

\* A closed reader that had borrowed its read-context and read from the
\* read-context's own underlying reader: close() has closed neither.
C17_Witness ==
    /\ life.closed = 1
    /\ ~life.owned
    /\ rd.underlying
    /\ ~life.schema_differs
    /\ life.read_context_closed = 0
    /\ life.underlying_closed = 0

\* C18: every call of fast_forward_to(position_range), in whatever state the
\* reader is, returns a failed result and leaves the reader's fields (state,
\* lower and upper bound, current_tombstone, the end-of-stream flag and the
\* rest), the buffer and the cache unchanged.
C18_FastForwardRejected ==
    [][(life'.fast_forwards = life.fast_forwards + 1) =>
          /\ life'.fast_forwards_failed = life.fast_forwards_failed + 1
          /\ rd' = rd
          /\ Buffer(emitted', life'.popped) = Buffer(emitted, life.popped)
          /\ emitted' = emitted
          /\ rows' = rows]_vars

\* fast_forward_to(position_range) was called, and failed, on a reader that
\* is in the middle of a read from the underlying reader with fragments in
\* its buffer.
C18_Witness ==
    /\ life.fast_forwards_failed = 1
    /\ life.fast_forwards = 1
    /\ rd.state = "reading_from_underlying"
    /\ ~rd.end_of_stream
    /\ Buffer(emitted, life.popped) # <<>>

C20_BoundsNotRows ==
    /\ ~is_clustering_row(rd.lower_bound)
    /\ ~is_clustering_row(rd.upper_bound)
    /\ rd.underlying_upper_bound # Nil => ~is_clustering_row(rd.underlying_upper_bound)

\* A reader that has emitted a clustering row, whose _lower_bound is the
\* position after that row's key, and that has set _underlying_upper_bound
\* for a read from the underlying reader.
C20_Witness ==
    /\ emitted # <<>>
    /\ emitted[Len(emitted)].kind = "clustering_row"
    /\ rd.lower_bound = emitted[Len(emitted)].pos + 1
    /\ rd.underlying_upper_bound # Nil
    /\ rd.underlying_upper_bound # rd.upper_bound
    /\ rd.state = "reading_from_underlying"

\* C21: under repeated fill_buffer() calls, with finitely many evictions and
\* invalidations, every read reaches end_of_stream.
C21_ReachesEndOfStream == (rd.state # "end_of_stream") ~> (rd.state = "end_of_stream")

\* A read that ended after it went to the underlying reader, came back to the
\* cache and was disturbed by a reclaim.
C21_Witness ==
    /\ rd.state = "end_of_stream"
    /\ hist.reclaims > 0
    /\ stats.row_miss > 0
    /\ stats.row_hit > 0
    /\ Len(rd.ck_ranges) = 2

\* The stream a reader with filter crr emits when it alone reads the
\* partition through a fresh snapshot.
SolitaryStream(crr, rev) ==
    RunFrom([World EXCEPT
                 !.rd = cache_flat_mutation_reader(crr, rev, TRUE, TRUE),
                 !.rows = make_incomplete,
                 !.snp = [static_row |-> FALSE, static_row_continuous |-> FALSE,
                          partition_tombstone |-> src.ptomb],
                 !.out = <<partition_start(src.ptomb)>>,
                 !.under = <<>>,
                 !.stats = NoStats],
            src, MaxSteps).out

\* No interval of rws is marked continuous while a row of the source inside
\* it has no entry.
NoRowMissing(rws) ==
    \A t \in EntryPositions(rws) :
        rws[t].continuous =>
            \A k \in src.rows : ~(PrevEntry(rws, t) < at_key(k) /\ at_key(k) < t)

\* A reader of the pair pushes its partition end in this step.
ReaderEnds == rd.state # "end_of_stream" /\ rd'.state = "end_of_stream"
PeerEnds == peer.rd.state # "end_of_stream" /\ peer'.rd.state = "end_of_stream"

\* C22 as stated: two readers of one snapshot that interleave at their
\* suspension points each end with exactly the stream a solitary reader of
\* the same filter emits, fragment for fragment, and at every point no
\* interval of the cache is marked continuous while a source row inside it is
\* missing.
C22_SharedSnapshotIdentical ==
    /\ []NoRowMissing(rows)
    /\ [][/\ ReaderEnds =>
                emitted' = SolitaryStream(rd.ck_ranges, rd.is_reversed)
          /\ PeerEnds =>
                peer'.out = SolitaryStream(peer.rd.ck_ranges, peer.rd.is_reversed)]_vars

\* C22, amended: two readers of one snapshot that interleave at their
\* suspension points each end with a stream equivalent to the one a solitary
\* reader of the same filter emits (the same rows with content under the same
\* range tombstones; empty rows and redundant changes apart), and at every
\* point no interval of the cache is marked continuous
\* while a source row inside it is missing.
C22_SharedSnapshot ==
    /\ []NoRowMissing(rows)
    /\ [][/\ ReaderEnds =>
                Normalize(emitted') =
                    Normalize(SolitaryStream(rd.ck_ranges, rd.is_reversed))
          /\ PeerEnds =>
                Normalize(peer'.out) =
                    Normalize(SolitaryStream(peer.rd.ck_ranges, peer.rd.is_reversed))]_vars

\* Both readers have ended after each of them read from the underlying
\* reader and each of them was served rows by the cache, which the other one
\* populated in between.
C22_Witness ==
    /\ rd.state = "end_of_stream"
    /\ peer.rd.state = "end_of_stream"
    /\ rd.underlying
    /\ peer.rd.underlying
    /\ stats.row_hit >= 2
    /\ stats.row_miss >= 2
    /\ \E i \in 1..Len(emitted) : emitted[i].kind = "clustering_row"
    /\ \E i \in 1..Len(peer.out) : peer.out[i].kind = "clustering_row"
    /\ src.static = "none"

\* The fragments of kind k in st.
OfKind(st, k) == SelectSeq(st, LAMBDA f : f.kind = k)

\* The reader's next step processes the static row: it is the first
\* fill_buffer() step of a reader whose schema has static columns.
StaticRowStep == rd.state = "before_static_row" /\ src.static # "none"

\* C23: when the snapshot's static row is continuous, the static-row step
\* counts one row hit and no miss, leaves the underlying reader unopened and
\* unread, and pushes one static row exactly when the cached one is not empty.
C23_StaticRowFromCache ==
    StaticRowStep /\ snp.static_row_continuous =>
        \A w \in {NextStep} :
            /\ w.stats.row_hit = stats.row_hit + 1
            /\ w.stats.row_miss = stats.row_miss
            /\ ~w.rd.underlying
            /\ w.under = <<>>
            /\ Len(OfKind(PushedBy(w), "static_row")) = (IF snp.static_row THEN 1 ELSE 0)
            /\ w.snp = snp

\* A second read that found the static row continuous and not empty: it has
\* emitted it with one hit, without the underlying reader.
C23_Witness ==
    /\ hist.reads = 2
    /\ rd.state # "before_static_row"
    /\ snp.static_row_continuous
    /\ snp.static_row
    /\ OfKind(emitted, "static_row") # <<>>
    /\ stats.row_hit = 1
    /\ stats.row_miss = 0
    /\ ~rd.underlying

\* C24: when the snapshot's static row is not continuous, the static-row step
\* counts one row miss and no row hit, opens the underlying reader, pushes the
\* static row the underlying reader yields (one fragment when the source has
\* a static row), and leaves static_row_continuous true if can_populate()
\* held with no mispopulation counted, and as it was with a mispopulation
\* counted otherwise.
C24_StaticRowFromUnderlying ==
    StaticRowStep /\ ~snp.static_row_continuous =>
        \A w \in {NextStep} :
            /\ w.stats.row_miss = stats.row_miss + 1
            /\ w.stats.row_hit = stats.row_hit
            /\ w.rd.underlying
            /\ Len(OfKind(PushedBy(w), "static_row")) = (IF src.static = "row" THEN 1 ELSE 0)
            /\ IF can_populate(World)
               THEN /\ w.snp.static_row_continuous
                    /\ w.stats.mispopulate = stats.mispopulate
               ELSE /\ w.snp.static_row_continuous = snp.static_row_continuous
                    /\ w.stats.mispopulate > stats.mispopulate

\* A reader that may not populate has read the static row from the
\* underlying reader: the row is in its stream, the miss and the
\* mispopulations are counted and the static row is still not continuous.
C24_Witness ==
    /\ rd.state # "before_static_row"
    /\ ~can_populate(World)
    /\ src.static = "row"
    /\ rd.underlying
    /\ ~snp.static_row_continuous
    /\ OfKind(emitted, "static_row") # <<>>
    /\ stats.row_miss > 0
    /\ stats.mispopulate > 0

\* The table-domain positions of the query-domain filter range r, its lower
\* bound excluded.
RangePositions(rev, r) ==
    LET tl == IF rev THEN reversed(r.ub) ELSE r.lb
        tu == IF rev THEN reversed(r.lb) ELSE r.ub
    IN  {p \in Positions : tl < p /\ p <= tu}

RECURSIVE ContinuousAt(_, _)
\* Table position p lies in a continuous interval of rws: the first entry at
\* or after p is continuous (the last dummy always exists).
ContinuousAt(rws, p) ==
    IF rws[p].present THEN rws[p].continuous ELSE ContinuousAt(rws, p + 1)

\* Every filter range of the reader lies in continuous intervals of rws, and
\* the static row is continuous unless the schema has no static columns.
FilterCovered(rws, sn) ==
    /\ \A i \in 1..Len(rd.ck_ranges) :
          \A p \in RangePositions(rd.is_reversed, rd.ck_ranges[i]) : ContinuousAt(rws, p)
    /\ sn.static_row_continuous \/ src.static = "none"

\* The reader has not left the cache: it has not opened the underlying
\* reader and is in none of the states that read from it.
ServedFromCache ==
    /\ rd.state \in {"before_static_row", "reading_from_cache", "end_of_stream"}
    /\ ~rd.underlying
    /\ under = <<>>

\* C25: a reader whose filter ranges are all covered by continuous intervals
\* of the cache, with the static row continuous or no static columns, and
\* that has been served from the cache so far, takes its next step from the
\* cache too: the state becomes neither move_to_underlying nor
\* reading_from_underlying, the underlying reader stays unopened, and the
\* ranges stay covered. From the first step of a read on, the whole read is
\* served from the cache, whether or not the source has the partition.
C25_ServedFromCache ==
    ServedFromCache /\ FilterCovered(rows, snp) =>
        \A w \in {NextStep} :
            /\ w.rd.state \in {"before_static_row", "reading_from_cache", "end_of_stream"}
            /\ ~w.rd.underlying
            /\ w.under = <<>>
            /\ FilterCovered(w.rows, w.snp)

\* A read of two ranges that found them covered has ended without opening
\* the underlying reader, and has emitted rows.
C25_Witness ==
    /\ rd.state = "end_of_stream"
    /\ hist.reads = 2
    /\ Len(rd.ck_ranges) = 2
    /\ FilterCovered(rows, snp)
    /\ ~rd.underlying
    /\ stats.row_miss = 0
    /\ OfKind(emitted, "clustering_row") # <<>>

\* The reader's filter has ranges and none of them is singular.
NonSingular ==
    /\ rd.ck_ranges # <<>>
    /\ \A i \in 1..Len(rd.ck_ranges) : ~rd.ck_ranges[i].single

\* The table-domain positions of the reader's filter ranges.
FilterPositions ==
    UNION {RangePositions(rd.is_reversed, rd.ck_ranges[i]) : i \in 1..Len(rd.ck_ranges)}

\* The table-domain bounds of the reader's filter ranges.
FilterBounds ==
    UNION {{to_table_domain(rd.is_reversed, rd.ck_ranges[i].lb),
            to_table_domain(rd.is_reversed, rd.ck_ranges[i].ub)} : i \in 1..Len(rd.ck_ranges)}

\* The positions where the source's range tombstone changes.
TombstoneBoundaries ==
    {q \in NonRow :
        (IF q = MaxPos THEN 0 ELSE src.tomb[q])
            # (IF q = 0 THEN 0 ELSE src.tomb[CHOOSE x \in SegStarts : NextNonRow(x) = q])}

\* Every source row of the filter ranges has its entry in rws.
SourceRowsCached(rws) ==
    \A p \in FilterPositions :
        (is_clustering_row(p) /\ key_of(p) \in src.rows) =>
            (rws[p].present /\ ~rws[p].dummy /\ ~rws[p].empty)

\* Table position p is known to rws: it lies in a continuous interval, or it
\* is a key whose row entry is there, or the position after such a key, with
\* no key between the two.
KnownAt(rws, p) ==
    \/ ContinuousAt(rws, p)
    \/ is_clustering_row(p) /\ rws[p].present /\ ~rws[p].dummy
    \/ has_key(p) /\ p % 3 = 0 /\ rws[p - 1].present /\ ~rws[p - 1].dummy

\* A complete populating read of non-singular ranges with no eviction or
\* invalidation so far.
PopulatedUndisturbed ==
    /\ Done
    /\ hist.reclaims = 0
    /\ can_populate(World)
    /\ NonSingular

\* C26, the cache after the read: the filter ranges are continuous and hold
\* every source row of theirs; after the first read of a behaviour, which
\* started on a cache with the last dummy only, the dummy entries are at
\* bounds of the ranges, at tombstone boundaries and at the last dummy's
\* position.
C26_CacheAfterRead ==
    PopulatedUndisturbed =>
        /\ \A p \in FilterPositions : KnownAt(rows, p)
        /\ SourceRowsCached(rows)
        /\ hist.reads = 1 =>
              \A t \in EntryPositions(rows) :
                  rows[t].dummy => t \in FilterBounds \cup TombstoneBoundaries \cup {MaxPos}

\* C26, the following read: a read of the same non-singular ranges after an
\* undisturbed populating read is served from the cache in every state.
C26_NextReadFromCache ==
    (hist.reads = 2 /\ hist.same /\ hist.reclaims = 0 /\ NonSingular) => ServedFromCache

\* C26: after a complete populating read of non-singular ranges without
\* eviction the ranges are continuous and contain every source row, dummies
\* are only at range bounds and tombstone boundaries, and a following read
\* of the same ranges never goes to the underlying reader.
C26_PopulatedRange == C26_CacheAfterRead /\ C26_NextReadFromCache

\* The range tombstone the stream r of range tombstone changes has open
\* before its i-th change.
OpenBefore(r, i) == IF i = 1 THEN 0 ELSE r[i - 1].tomb

\* The stream st opens a range tombstone that is already open.
DuplicateOpening(st) ==
    LET r == OfKind(st, "range_tombstone_change")
    IN  \E i \in 1..Len(r) : r[i].tomb # 0 /\ r[i].tomb = OpenBefore(r, i)

\* The stream st closes a range tombstone and opens it again at the same
\* position, inside a filter range of the reader and where the source's
\* range tombstone does not change.
ClosingOpeningPair(st) ==
    LET r == OfKind(st, "range_tombstone_change")
    IN  \E i \in 1..(Len(r) - 1) :
            /\ r[i].tomb = 0
            /\ r[i + 1].pos = r[i].pos
            /\ r[i + 1].tomb = OpenBefore(r, i)
            /\ \A j \in 1..Len(rd.ck_ranges) : rd.ck_ranges[j].ub # r[i].pos
            /\ to_table_domain(rd.is_reversed, r[i].pos) \notin TombstoneBoundaries

\* C27: the stream of a reader never opens a range tombstone that is
\* already open and never closes a tombstone to open it again at the same
\* position within a range where the source's tombstone goes on: a range
\* tombstone served partly from the cache and partly from the underlying
\* reader has one opening change and one closing change.
C27_OneOpeningOneClosing ==
    ~DuplicateOpening(emitted) /\ ~ClosingOpeningPair(emitted)

\* The interval of rws that ends at query-domain position q is continuous:
\* the flag of the entry at q in a forward read, of the entry after it in
\* table order in a reverse read.
IntervalContinuous(rws, rev, q) ==
    IF rev
    THEN reversed(q) < MaxPos /\ ContinuousAt(rws, reversed(q) + 1)
    ELSE ContinuousAt(rws, q)

\* There is a gap between the reader's lower_bound and query-domain position
\* q: q lies beyond lower_bound, is not adjacent to it and the interval
\* before it is not continuous in rws.
GapBefore(r, rws, q) ==
    /\ r.lower_bound < q
    /\ ~no_clustering_row_between_weak(r.lower_bound, q)
    /\ ~IntervalContinuous(rws, r.is_reversed, q)

\* The position the cursor of reader r stands on in its next cache-read
\* step: where it is, or where advance_to(_lower_bound) puts it when its
\* iterators are not valid.
CursorPosition(r, rws) ==
    IF r.next_row.valid THEN r.next_row.position
    ELSE cursor_advance_to(rws, r.is_reversed, r.lower_bound).position

\* The reader's next step is one in state reading_from_cache.
CacheReadStep == rd.state = "reading_from_cache"

\* C28: a cache-read step that finds a gap between lower_bound and the
\* cursor pushes nothing, leaves lower_bound and makes the state
\* move_to_underlying, so a step that emits from the cache or advances
\* lower_bound does so over a continuous interval; and a cache-read step
\* that leaves the cursor on an entry with a gap before it leaves the state
\* move_to_underlying.
C28_NoReadAcrossGap ==
    CacheReadStep =>
        \A w \in {NextStep} :
            /\ GapBefore(rd, rows, CursorPosition(rd, rows)) =>
                  /\ w.rd.state = "move_to_underlying"
                  /\ PushedBy(w) = <<>>
                  /\ w.rd.lower_bound = rd.lower_bound
            /\ (w.rd.state = "reading_from_cache" /\ w.rd.next_row.valid) =>
                  ~GapBefore(w.rd, w.rows, w.rd.next_row.position)

\* A read that emitted rows from the cache only, lost the continuity before
\* its cursor to an eviction and turned to the underlying reader: the gap
\* lies between lower_bound and the cursor, and nothing was read across it.
C28_Witness ==
    /\ rd.state = "move_to_underlying"
    /\ hist.reclaims > 0
    /\ ~rd.underlying
    /\ rd.next_row.valid
    /\ rd.last_row = null_row
    /\ GapBefore(rd, rows, rd.next_row.position)
    /\ OfKind(emitted, "clustering_row") # <<>>

\* The range tombstone open at the end of the stream st.
StreamTombstone(st) ==
    LET r == OfKind(st, "range_tombstone_change")
    IN  IF r = <<>> THEN 0 ELSE r[Len(r)].tomb

\* The cursor of reader r as its next cache-read step uses it.
CursorOf(r, rws) ==
    IF r.next_row.valid THEN r.next_row
    ELSE cursor_advance_to(rws, r.is_reversed, r.lower_bound)

\* C29: when a cache-read step pushes a clustering row, the row is the
\* cursor's, the range tombstone open in the stream before the row is the
\* cursor's range_tombstone_for_row, and a range tombstone change pushed
\* right before the row is at before_key(cursor position) with that
\* tombstone, unless it is the change at lower_bound for the interval before
\* the cursor; after the step current_tombstone is the tombstone open in
\* the stream.
C29_RowUnderItsTombstone ==
    CacheReadStep =>
        \A w \in {NextStep} : \A pushed \in {PushedBy(w)} :
            OfKind(pushed, "clustering_row") # <<>> =>
                LET cur == CursorOf(rd, rows)
                    k == CHOOSE i \in 1..Len(pushed) : pushed[i].kind = "clustering_row"
                    before_row == emitted \o SubSeq(pushed, 1, k - 1)
                IN  /\ Len(OfKind(pushed, "clustering_row")) = 1
                    /\ pushed[k].pos = cur.position
                    /\ StreamTombstone(before_row) = cur.range_tombstone_for_row
                    /\ (k > 1 /\ rd.current_tombstone # cur.range_tombstone_for_row) =>
                          \/ pushed[k - 1] = range_tombstone_change(before_key(cur.position),
                                                                   cur.range_tombstone_for_row)
                          \/ pushed[k - 1] = range_tombstone_change(rd.lower_bound,
                                                                   cur.range_tombstone)
                    /\ w.rd.current_tombstone = StreamTombstone(w.out)

\* A read served from the cache so far has pushed a row right after the
\* range tombstone change at before_key(row position) that opens the row's
\* own range tombstone.
C29_Witness ==
    /\ ~rd.underlying
    /\ \E i \in 1..(Len(emitted) - 1) :
          /\ emitted[i + 1].kind = "clustering_row"
          /\ emitted[i].kind = "range_tombstone_change"
          /\ emitted[i].pos = before_key(emitted[i + 1].pos)
          /\ emitted[i].tomb # 0
          /\ StreamTombstone(SubSeq(emitted, 1, i - 1)) # emitted[i].tomb

\* The reader's next step is the one in state move_to_underlying.
MoveToUnderlyingStep == rd.state = "move_to_underlying"

\* C30: in the move_to_underlying step of a reader whose underlying source
\* does not have the partition, the underlying reader is not fast-forwarded
\* and holds no fragment, one closing range tombstone change at lower_bound
\* is pushed when current_tombstone is not empty and nothing otherwise,
\* current_tombstone is empty afterwards and the state is
\* reading_from_underlying.
C30_AbsentPartition ==
    MoveToUnderlyingStep /\ ~src.exists =>
        \A w \in {NextStep} :
            /\ ~w.fast_forwarded
            /\ w.under = <<>>
            /\ PushedBy(w) = (IF rd.current_tombstone # 0
                              THEN <<range_tombstone_change(rd.lower_bound, 0)>>
                              ELSE <<>>)
            /\ w.rd.current_tombstone = 0
            /\ w.rd.state = "reading_from_underlying"

\* A reader over an absent partition has left the cache with a range
\* tombstone open and has closed it at lower_bound on its way to the
\* underlying reader.
C30_Witness ==
    /\ ~src.exists
    /\ rd.state = "reading_from_underlying"
    /\ rd.current_tombstone = 0
    /\ under = <<>>
    /\ Len(emitted) > 2
    /\ emitted[Len(emitted)] = range_tombstone_change(rd.lower_bound, 0)
    /\ StreamTombstone(SubSeq(emitted, 1, Len(emitted) - 1)) # 0

\* The first fragment of the slice st is an opening range tombstone change
\* at position p.
OpensAt(st, p) ==
    /\ st # <<>>
    /\ Head(st).kind = "range_tombstone_change"
    /\ Head(st).tomb # 0
    /\ Head(st).pos = p

\* C31: in the move_to_underlying step over an existing partition the
\* underlying reader is fast-forwarded to [lower_bound,
\* underlying_upper_bound); with current_tombstone not empty the step pushes
\* a closing range tombstone change at lower_bound and clears
\* current_tombstone exactly when the slice does not start with an opening
\* change at lower_bound (an empty slice included), and with an empty
\* current_tombstone it pushes nothing.
C31_CloseBeforeUnderlying ==
    MoveToUnderlyingStep /\ src.exists =>
        \A w \in {NextStep} :
            /\ w.under = underlying_fast_forward_to(src, rd.is_reversed, rd.lower_bound,
                                                    w.rd.underlying_upper_bound)
            /\ IF rd.current_tombstone # 0 /\ ~OpensAt(w.under, rd.lower_bound)
               THEN /\ PushedBy(w) = <<range_tombstone_change(rd.lower_bound, 0)>>
                    /\ w.rd.current_tombstone = 0
               ELSE /\ PushedBy(w) = <<>>
                    /\ w.rd.current_tombstone = rd.current_tombstone

\* A reader that left the cache with a tombstone open and found the
\* underlying slice opening a tombstone at lower_bound: nothing was closed.
C31_Witness ==
    /\ rd.state = "reading_from_underlying"
    /\ rd.current_tombstone # 0
    /\ OpensAt(under, rd.lower_bound)
    /\ src.exists
    /\ emitted[Len(emitted)].kind = "range_tombstone_change"
    /\ emitted[Len(emitted)].tomb = rd.current_tombstone
    /\ emitted[Len(emitted)].pos < rd.lower_bound

\* The reader's next step takes a range tombstone change from the underlying
\* reader.
UnderlyingChangeStep ==
    /\ rd.state = "reading_from_underlying"
    /\ under # <<>>
    /\ Head(under).kind = "range_tombstone_change"

\* C32: a range tombstone change taken from the underlying reader at
\* underlying_upper_bound is not pushed, lower_bound becomes its position and
\* current_tombstone and the cache stay as they are; elsewhere a change that
\* repeats current_tombstone is dropped, nothing is pushed or populated; any
\* other change becomes current_tombstone and is pushed.
C32_ChangeFromUnderlying ==
    UnderlyingChangeStep =>
        \A w \in {NextStep} :
            IF Head(under).pos = rd.underlying_upper_bound
            THEN /\ PushedBy(w) = <<>>
                 /\ w.rd.lower_bound = Head(under).pos
                 /\ w.rd.current_tombstone = rd.current_tombstone
                 /\ w.rows = rows
            ELSE IF Head(under).tomb = rd.current_tombstone
            THEN /\ PushedBy(w) = <<>>
                 /\ w.rd.current_tombstone = rd.current_tombstone
                 /\ w.rd.lower_bound = rd.lower_bound
                 /\ w.rows = rows
            ELSE /\ PushedBy(w) = <<Head(under)>>
                 /\ w.rd.current_tombstone = Head(under).tomb

\* A reader that came from the cache with a tombstone open has just dropped
\* the underlying reader's opening change of the same tombstone at
\* lower_bound.
C32_Witness ==
    /\ rd.state = "reading_from_underlying"
    /\ rd.current_tombstone # 0
    /\ rd.underlying_upper_bound # Nil
    /\ LET sl == underlying_fast_forward_to(src, rd.is_reversed, rd.lower_bound,
                                            rd.underlying_upper_bound)
       IN  /\ OpensAt(sl, rd.lower_bound)
           /\ Head(sl).tomb = rd.current_tombstone
           /\ under = Tail(sl)
    /\ emitted[Len(emitted)].kind = "range_tombstone_change"
    /\ emitted[Len(emitted)].pos < rd.lower_bound

\* The step that ends the underlying slice of a single-row range with the
\* cursor at its position and out of range, in a reader that may populate.
SingleRowSliceEnd ==
    /\ ReaderStep
    /\ rd.state = "reading_from_underlying"
    /\ rd'.state # "reading_from_underlying"
    /\ under = <<>>
    /\ rd.ck_ranges[rd.ck_ranges_curr].single
    /\ ~rd.next_row_in_range
    /\ \/ rd.next_row.valid
       \/ cursor_adjacent(rd.next_row.position,
                          cursor_advance_to(rows, rd.is_reversed, rd.next_row.position))
    /\ can_populate(World)

\* The table position of the key of the reader's current single-row range.
SingleRowKey == to_table_domain(rd.is_reversed, rd.ck_ranges[rd.ck_ranges_curr].lb + 1)

C34_HasRt ==
    rd.has_rt <=> \E i \in 1..Len(emitted) : emitted[i].kind = "range_tombstone_change"

\* The reader is between its first step and its end with a cursor whose
\* iterators are valid.
CursorInUse ==
    /\ rd.state \in {"reading_from_cache", "move_to_underlying", "reading_from_underlying"}
    /\ rd.next_row.valid

\* The query positions of the entries of rws.
QueryPositions(rws) == {to_table_domain(rd.is_reversed, t) : t \in EntryPositions(rws)}

PopulationPoint == rd.state = "reading_from_underlying" /\ can_populate(World)

PopulationStep ==
    /\ ReaderStep
    /\ rd.state = "reading_from_underlying"
    /\ can_populate(World)
    /\ <<under, rd.state>>' # <<under, rd.state>>
    /\ \/ under # <<>>
       \/ /\ ~rd.next_row_in_range
          /\ ~rd.ck_ranges[rd.ck_ranges_curr].single

\* The table position of the entry a population step inserts: the
\* fragment's, or upper_bound at the end of the slice.
PopulationTarget ==
    to_table_domain(rd.is_reversed,
                    IF under # <<>> THEN Head(under).pos ELSE rd.upper_bound)

\* p is the lower bound of the range the step moved to, where
\* move_to_range() may leave an entry of its own.
NextRangeBound(p) ==
    /\ rd'.ck_ranges_curr # rd.ck_ranges_curr
    /\ p = to_table_domain(rd.is_reversed, rd'.lower_bound)
    /\ p # PopulationTarget
    /\ p # rd.last_row.pos

\* Where a population step writes. A reverse read inserts only at the
\* target, non-continuous, and writes the continuous flag and
\* current_tombstone only on last_row's entry, which follows the target; a
\* forward read inserts and writes only at the target, which follows
\* last_row. No entry lies between the two: always when exact, and else as
\* long as the other reader of the snapshot has not run.
PopulationWrites(exact) ==
    LET Inserted(p) == ~rows[p].present /\ rows'[p].present /\ ~NextRangeBound(p)
        Flagged(p) == /\ rows[p].present /\ rows'[p].present /\ ~NextRangeBound(p)
                      /\ \/ rows'[p].continuous # rows[p].continuous
                         \/ rows'[p].range_tombstone # rows[p].range_tombstone
        NoEntryBetween(a, b) ==
            \/ \A x \in EntryPositions(rows') : (a < x /\ x < b) => NextRangeBound(x)
            \/ ~exact /\ peer.rd.state # "before_static_row"
    IN  \A p \in 0..MaxPos :
            /\ Inserted(p) => p = PopulationTarget
            /\ IF rd.is_reversed
               THEN /\ Inserted(p) => ~rows'[p].continuous
                    /\ Flagged(p) =>
                           /\ p = rd.last_row.pos
                           /\ rows'[p].continuous
                           /\ rows'[p].range_tombstone = rd.current_tombstone
                           /\ rows'[PopulationTarget].present
                           /\ PopulationTarget < p
                           /\ NoEntryBetween(PopulationTarget, p)
               ELSE (Flagged(p) \/ (Inserted(p) /\ rows'[p].continuous)) =>
                           /\ p = PopulationTarget
                           /\ rows'[p].continuous
                           /\ rows'[p].range_tombstone = rd.current_tombstone
                           /\ rd.last_row.pos < p
                           /\ NoEntryBetween(rd.last_row.pos, p)

\* C37 as stated: in a reverse read a population step writes the continuous
\* flag and the interval's range tombstone on last_row's entry and the entry
\* it inserts stays non-continuous, in a forward read it writes them on the
\* inserted or terminal entry, and the interval that becomes continuous is
\* exactly the one between last_row and the new entry.
C37_PopulationInterval == [][PopulationStep => PopulationWrites(TRUE)]_vars

\* C37, amended: the writes go where the claim says, and the interval that
\* becomes continuous lies between last_row and the new entry; it is exactly
\* that interval as long as no other reader of the snapshot has run, and
\* else may begin at an entry the other reader left between the two.
C37_PopulationWrites == [][PopulationStep => PopulationWrites(FALSE)]_vars

\* A reverse reader has just populated a row from the underlying reader:
\* last_row is on the new entry, which is not continuous, and the entry
\* after it in table order is continuous.
C37_Witness ==
    /\ rd.is_reversed
    /\ rd.state = "reading_from_underlying"
    /\ rd.last_row.pos # Nil
    /\ rows[rd.last_row.pos].present
    /\ ~rows[rd.last_row.pos].dummy
    /\ ~rows[rd.last_row.pos].continuous
    /\ rows[NextEntry(rows, rd.last_row.pos)].continuous
    /\ emitted[Len(emitted)].kind = "clustering_row"
    /\ to_table_domain(rd.is_reversed, emitted[Len(emitted)].pos) = rd.last_row.pos

\* A cursor whose iterators are valid stands on an entry exactly when the
\* store holds one at its position.
CursorLive ==
    (CursorInUse /\ rd.next_row.valid) =>
        rd.next_row.at_a_row =
            rows[to_table_domain(rd.is_reversed, rd.next_row.position)].present

\* The move_to_underlying step reads next_row.position, to bound the slice
\* of the underlying reader, without a look at the cursor's iterators.
UncheckedPosition == rd.state = "move_to_underlying" /\ rd.next_row_in_range

\* A step of the reader, free of allocation failures, that begins with a
\* look at the cursor: a round of reading_from_cache (iterators_valid, else
\* advance_to(lower_bound)) or the end of an underlying slice
\* (maybe_refresh).
RevalidatingStep ==
    /\ ReaderStep
    /\ hist'.bad_allocs = hist.bad_allocs
    /\ \/ rd.state = "reading_from_cache"
       \/ rd.state = "reading_from_underlying" /\ under = <<>>

\* C38 as stated: a cursor with valid iterators is on a live entry, and
\* wherever the reader reads next_row's position or iterator without
\* revalidating it first, the cursor's iterators are valid.
C38_NeverInvalidCursor ==
    /\ CursorLive
    /\ UncheckedPosition => rd.next_row.valid

\* C38, amended: a cursor with valid iterators is on a live entry; a round
\* of reading_from_cache pushes only rows the store holds, and it and the
\* end of an underlying slice leave the cursor with valid iterators. The
\* position stored in the cursor is read unchecked by move_to_underlying.
C38_CursorRevalidated ==
    /\ []CursorLive
    /\ [][/\ (ReaderStep /\ rd.state = "reading_from_cache") =>
                 \A i \in 1..Len(Pushed) :
                     Pushed[i].kind = "clustering_row" =>
                         LET t == to_table_domain(rd.is_reversed, Pushed[i].pos)
                         IN  rows[t].present /\ ~rows[t].dummy
           /\ RevalidatingStep => rd'.next_row.valid]_vars

\* After an eviction and a failed allocation the reader is reading from the
\* cache again with a valid cursor, past a row it has just pushed.
C38_Witness ==
    /\ rd.state = "reading_from_cache"
    /\ rd.next_row.valid
    /\ stats.row_evictions > 0
    /\ hist.reclaims > 0
    /\ hist.bad_allocs > 0
    /\ emitted[Len(emitted)].kind = "clustering_row"
    /\ emitted[Len(emitted)].pos < rd.next_row.position
    /\ rows[to_table_domain(rd.is_reversed, emitted[Len(emitted)].pos)].present

\* The step of a fill_buffer() call made with the end-of-stream flag set.
FillBufferAfterEnd == rd.end_of_stream /\ <<life, hist>>' = <<life, hist>>

\* C39 as stated: after any sequence of fill_buffer(), next_partition() and
\* fast_forward_to(partition_range) calls the end-of-stream flag is set
\* exactly when the state is end_of_stream, and a fill_buffer() issued with
\* the flag set pushes no fragment.
C39_FlagIffState ==
    /\ [](rd.end_of_stream <=> rd.state = "end_of_stream")
    /\ [][FillBufferAfterEnd => emitted' = emitted]_vars

\* C39, amended: the state end_of_stream implies the flag, and the flag is
\* set in another state only after next_partition() or
\* fast_forward_to(partition_range); a fill_buffer() issued with the flag
\* set changes nothing and pushes no fragment unless the state is
\* before_static_row, where it runs the first call's branch: afterwards the
\* state is no longer before_static_row and nothing but a static row or the
\* partition end was pushed.
C39_StateImpliesFlag ==
    /\ [](rd.state = "end_of_stream" => rd.end_of_stream)
    /\ [](rd.end_of_stream /\ rd.state # "end_of_stream" =>
              life.cut \/ life.fast_forwards > 0)
    /\ [][FillBufferAfterEnd =>
             IF rd.state = "before_static_row"
             THEN /\ rd'.state # "before_static_row"
                  /\ rd'.end_of_stream
                  /\ \A i \in 1..Len(Pushed) :
                         Pushed[i].kind \in {"static_row", "partition_end"}
             ELSE <<rd, rows, snp, emitted, under>>' = <<rd, rows, snp, emitted, under>>]_vars

\* next_partition() or fast_forward_to(partition_range) marked the end of
\* the stream of a reader that had not made its first step, and a
\* fill_buffer() issued afterwards has pushed the static row, which is in
\* the buffer.
C39_Witness ==
    /\ rd.end_of_stream
    /\ rd.state = "reading_from_cache"
    /\ Len(emitted) > 0
    /\ emitted[Len(emitted)].kind = "static_row"
    /\ life.popped < Len(emitted)
    /\ life.cut \/ life.fast_forwards > 0

\* The step in which the reader calls fast_forward_to() on the underlying
\* reader.
RangeRequested == ReaderStep /\ StepOf(World, src).fast_forwarded

\* C40: every position range passed to the underlying reader's
\* fast_forward_to() in one read is [lower_bound, underlying_upper_bound)
\* with lower_bound <= underlying_upper_bound <= upper_bound inside the
\* current filter interval; it begins at or after the end of the range
\* passed before it, so that the ranges do not overlap and every position
\* of a later range is after every position of an earlier one; and it is
\* passed only when the previous slice holds no more fragments.
C40_UnderlyingRanges ==
    [][RangeRequested =>
          /\ under = <<>>
          /\ asked' = [lb |-> rd.lower_bound, ub |-> rd'.underlying_upper_bound]
          /\ rd.ck_ranges[rd.ck_ranges_curr].lb <= asked'.lb
          /\ asked'.lb <= asked'.ub
          /\ asked'.ub <= rd.upper_bound
          /\ rd.upper_bound = rd.ck_ranges[rd.ck_ranges_curr].ub
          /\ asked # NoRange => asked.ub <= asked'.lb]_vars

\* The reader has asked the underlying reader for a second range in one
\* read, after the end of the first.
C40_Witness ==
    /\ rd.state = "reading_from_underlying"
    /\ asked # NoRange
    /\ asked.ub = rd.underlying_upper_bound
    /\ asked.lb > rd.ck_ranges[rd.ck_ranges_curr].lb
    /\ asked.ub < rd.upper_bound
    /\ \E i \in 1..Len(emitted) : emitted[i].kind = "clustering_row"

====
